---------------------------- MODULE Spec2Model ----------------------------
(***************************************************************************)
(* Model of the Nshare file-sharing server (src/server.js): the path       *)
(* sandbox, the mutating request handlers (upload, create_folder, delete,  *)
(* rename, undo) with the single-slot undo record, and the polling change  *)
(* detector.                                                               *)
(*                                                                         *)
(* Paths are JavaScript strings; a string is modelled as the sequence of   *)
(* its characters (one-character TLA+ strings), so that String.startsWith, *)
(* path.join, path.resolve, path.dirname, path.extname and path.basename   *)
(* are computed character by character as Node's POSIX path module does.   *)
(***************************************************************************)
EXTENDS Integers, Sequences, FiniteSets, TLC

VARIABLES
    fs,             \* the filesystem: absolute path -> [kind, data]
    lastOperation,  \* server.js:57, the undo slot
    resp,           \* the response of the last request handled
    emitted,        \* the file_updated events emitted by the last step
    prevResp,       \* the response before resp (history)
    nOps,           \* number of steps taken (bounded by MaxOps)
    candidate,      \* sandbox check: the client-supplied path under test
    verdict,        \* sandbox check: "pending", "accepted" or "rejected"
    mtimeMs,        \* polling: directory -> current modification time
    lastMtimes,     \* server.js:1037, directory -> mtime at the last sweep
    pollEmitted,    \* polling: the events emitted by the last sweep
    pollInfo,       \* polling: history of the sweeps (see PollInit)
    unreported,     \* polling: the modifications no event was sent for (history)
    clock,          \* notifications: the time, in ticks of TickMs
    timers,         \* notifications: the timeouts set and not yet run
    fsWatchDebounce,\* server.js:1026, the timeout the watcher set last
    signals,        \* notifications: the change signals raised (history)
    broadcasts,     \* notifications: the file_updated events sent (history)
    stats,          \* listing: absolute path -> [size, mtime]
    page,           \* listing: the answer to the last listing request
    thrown,         \* error replies: the filesystem error a handler caught
    reply,          \* error replies: the error body the handler answered
    now,            \* concurrent requests: Date.now(), in milliseconds
    requests        \* concurrent requests: the requests and how far each got

vars == <<fs, lastOperation, resp, emitted, prevResp, nOps, candidate, verdict,
          mtimeMs, lastMtimes, pollEmitted, pollInfo, unreported, clock, timers,
          fsWatchDebounce, signals, broadcasts, stats, page, thrown, reply,
          now, requests>>

mainVars == <<fs, lastOperation, resp, emitted, prevResp, nOps>>
sandboxVars == <<candidate, verdict>>
pollVars == <<mtimeMs, lastMtimes, pollEmitted, pollInfo, unreported>>
notifyVars == <<clock, timers, fsWatchDebounce, signals, broadcasts>>
listVars == <<stats, page>>
errorVars == <<thrown, reply>>
raceVars == <<now, requests>>
auxVars == <<notifyVars, listVars, errorVars, raceVars>>

-----------------------------------------------------------------------------
(* Strings as character sequences                                          *)

SLASH == "/"
DOT == "."
EmptyStr == << >>

\* s.startsWith(t)
StartsWith(s, t) ==
    /\ Len(t) <= Len(s)
    /\ SubSeq(s, 1, Len(t)) = t

\* s.endsWith(t)
EndsWith(s, t) ==
    /\ Len(t) <= Len(s)
    /\ SubSeq(s, Len(s) - Len(t) + 1, Len(s)) = t

\* the index of the last occurrence of character c in s, 0 when there is none
LastIndexOf(s, c) ==
    LET hits == {i \in 1..Len(s) : s[i] = c}
    IN  IF hits = {} THEN 0 ELSE CHOOSE i \in hits : \A j \in hits : j <= i

\* s.split("/") without the empty pieces: the segments of a path
RECURSIVE SplitFrom(_, _, _)
SplitFrom(s, i, cur) ==
    IF i > Len(s)
    THEN IF cur = EmptyStr THEN << >> ELSE <<cur>>
    ELSE IF s[i] = SLASH
         THEN IF cur = EmptyStr
              THEN SplitFrom(s, i + 1, EmptyStr)
              ELSE <<cur>> \o SplitFrom(s, i + 1, EmptyStr)
         ELSE SplitFrom(s, i + 1, Append(cur, s[i]))

Segments(s) == SplitFrom(s, 1, EmptyStr)

\* segments joined by "/" (no leading separator)
RECURSIVE JoinSegs(_)
JoinSegs(segs) ==
    IF segs = << >> THEN EmptyStr
    ELSE IF Len(segs) = 1 THEN segs[1]
    ELSE segs[1] \o <<SLASH>> \o JoinSegs(Tail(segs))

\* Node's normalizeString: "." segments are dropped, ".." removes the
\* segment before it; above the top an absolute path drops the "..",
\* a relative path keeps it
RECURSIVE NormalizeSegs(_, _, _)
NormalizeSegs(segs, acc, isAbsolute) ==
    IF segs = << >> THEN acc
    ELSE LET s == Head(segs)
             rest == Tail(segs)
         IN  IF s = <<DOT>> THEN NormalizeSegs(rest, acc, isAbsolute)
             ELSE IF s = <<DOT, DOT>>
             THEN IF acc # << >> /\ acc[Len(acc)] # <<DOT, DOT>>
                  THEN NormalizeSegs(rest, SubSeq(acc, 1, Len(acc) - 1), isAbsolute)
                  ELSE IF isAbsolute
                       THEN NormalizeSegs(rest, acc, isAbsolute)
                       ELSE NormalizeSegs(rest, Append(acc, s), isAbsolute)
             ELSE NormalizeSegs(rest, Append(acc, s), isAbsolute)

IsAbsolute(p) == Len(p) > 0 /\ p[1] = SLASH

\* path.normalize(p): a trailing separator is kept
PathNormalize(p) ==
    IF p = EmptyStr THEN <<DOT>>
    ELSE LET abs == IsAbsolute(p)
             trailing == p[Len(p)] = SLASH
             body == JoinSegs(NormalizeSegs(Segments(p), << >>, abs))
         IN  IF body = EmptyStr
             THEN IF abs THEN <<SLASH>>
                  ELSE IF trailing THEN <<DOT, SLASH>> ELSE <<DOT>>
             ELSE (IF abs THEN <<SLASH>> ELSE EmptyStr) \o body
                  \o (IF trailing THEN <<SLASH>> ELSE EmptyStr)

\* path.join(a, b): the non-empty arguments joined by "/" and normalized
PathJoin(a, b) ==
    IF a = EmptyStr /\ b = EmptyStr THEN <<DOT>>
    ELSE IF a = EmptyStr THEN PathNormalize(b)
    ELSE IF b = EmptyStr THEN PathNormalize(a)
    ELSE PathNormalize(a \o <<SLASH>> \o b)

\* the working directory of the server process
Cwd == <<SLASH>>

\* path.resolve(p): absolute, normalized, without a trailing separator
PathResolve(p) ==
    LET full == IF IsAbsolute(p) THEN p ELSE Cwd \o <<SLASH>> \o p
        body == JoinSegs(NormalizeSegs(Segments(full), << >>, TRUE))
    IN  <<SLASH>> \o body

\* path.dirname(p), as Node's posix.dirname scans it from the end
DirnameEnd(p) ==
    LET cuts == {i \in 2..Len(p) :
                    /\ p[i] = SLASH
                    /\ \E j \in (i + 1)..Len(p) : p[j] # SLASH}
    IN  IF cuts = {} THEN 0 ELSE CHOOSE i \in cuts : \A j \in cuts : j <= i

PathDirname(p) ==
    IF p = EmptyStr THEN <<DOT>>
    ELSE LET end == DirnameEnd(p)
         IN  IF end = 0 THEN (IF IsAbsolute(p) THEN <<SLASH>> ELSE <<DOT>>)
             ELSE IF IsAbsolute(p) /\ end = 2 THEN <<SLASH, SLASH>>
             ELSE SubSeq(p, 1, end - 1)

\* path.extname(name) of a name without separators: from the last "." on,
\* empty when there is no ".", when the only "." leads, or for ".."
PathExtname(name) ==
    LET d == LastIndexOf(name, DOT)
    IN  IF d <= 1 \/ name = <<DOT, DOT>> THEN EmptyStr
        ELSE SubSeq(name, d, Len(name))

\* path.basename(name, ext) of a name without separators
PathBasename(name, ext) ==
    IF ext # EmptyStr /\ ext # name /\ EndsWith(name, ext)
    THEN SubSeq(name, 1, Len(name) - Len(ext))
    ELSE name

-----------------------------------------------------------------------------
(* The sandbox: server.js:401-424                                          *)

\* BASE_DIR = path.resolve("./uploads") with the process started in Cwd;
\* the directory name is shortened to one letter
BASE_DIR == PathResolve(<<DOT, SLASH, "u">>)

\* TEMP_DIR = path.resolve("temp_uploads")
TEMP_DIR == PathResolve(<<"t">>)

safeJoin(dir, filename) == PathResolve(PathJoin(dir, filename))

isSafePath(filePath, baseDir) ==
    LET resolvedPath == PathResolve(filePath)
        resolvedBase == PathResolve(baseDir)
    IN  StartsWith(resolvedPath, resolvedBase)

\* the canonical path p is dir itself or lies below it, in whole segments
InsideDir(p, dir) ==
    LET ps == Segments(p)
        ds == Segments(dir)
    IN  /\ Len(ds) <= Len(ps)
        /\ SubSeq(ps, 1, Len(ds)) = ds

InsideRoot(p) == InsideDir(p, BASE_DIR)

\* String.prototype.trim on the whitespace the model's names use
WhiteSpace == {" "}

RECURSIVE TrimStart(_)
TrimStart(s) ==
    IF s # EmptyStr /\ Head(s) \in WhiteSpace THEN TrimStart(Tail(s)) ELSE s

RECURSIVE TrimEnd(_)
TrimEnd(s) ==
    IF s # EmptyStr /\ s[Len(s)] \in WhiteSpace
    THEN TrimEnd(SubSeq(s, 1, Len(s) - 1))
    ELSE s

Trim(s) == TrimEnd(TrimStart(s))

UpperCase == <<"A", "B", "C", "D", "E", "F", "G", "H", "I", "J", "K", "L", "M",
               "N", "O", "P", "Q", "R", "S", "T", "U", "V", "W", "X", "Y", "Z">>
LowerCase == <<"a", "b", "c", "d", "e", "f", "g", "h", "i", "j", "k", "l", "m",
               "n", "o", "p", "q", "r", "s", "t", "u", "v", "w", "x", "y", "z">>

ToLowerChar(c) ==
    IF \E i \in 1..26 : UpperCase[i] = c
    THEN LowerCase[CHOOSE i \in 1..26 : UpperCase[i] = c]
    ELSE c

ToLower(s) == [i \in 1..Len(s) |-> ToLowerChar(s[i])]

\* the control characters \x00-\x1f, each written as one token
NUL == "\\x00"
ControlChars == {NUL, "\\t", "\\n"}

\* /[<>:"|?*\x00-\x1f]/
InvalidChars == {"<", ">", ":", "\"", "|", "?", "*"} \cup ControlChars

\* /^(con|prn|aux|nul|com[1-9]|lpt[1-9])$/i
ReservedNames ==
    {<<"c", "o", "n">>, <<"p", "r", "n">>, <<"a", "u", "x">>, <<"n", "u", "l">>}
    \cup {<<"c", "o", "m", d>> : d \in {"1", "2", "3", "4", "5", "6", "7", "8", "9"}}
    \cup {<<"l", "p", "t", d>> : d \in {"1", "2", "3", "4", "5", "6", "7", "8", "9"}}

MaxFileNameLen == 255
MaxPathStrLen == 1000

isValidFileName(filename) ==
    /\ filename # EmptyStr
    /\ ~\E i \in 1..Len(filename) : filename[i] \in InvalidChars
    /\ ToLower(filename) \notin ReservedNames
    /\ Len(filename) <= MaxFileNameLen

isValidPath(pathStr) ==
    \/ pathStr = EmptyStr
    \/ /\ Len(pathStr) <= MaxPathStrLen
       /\ ~\E i \in 1..Len(pathStr) : pathStr[i] = NUL

-----------------------------------------------------------------------------
(* The filesystem calls the handlers make.  fs maps the canonical absolute *)
(* path of every entry to [kind |-> "file" | "dir", data |-> content];     *)
(* every entry's parent is a directory of fs.  A call returns              *)
(* [err |-> "" or the errno name, fs |-> the filesystem afterwards].       *)

Ok(f) == [err |-> "", fs |-> f]
Fail(code, f) == [err |-> code, fs |-> f]

Key(p) == PathResolve(p)

\* q lies strictly below directory p
Below(q, p) ==
    IF p = <<SLASH>> THEN q # p ELSE StartsWith(q, p \o <<SLASH>>)

\* fs.existsSync(p), fs.promises.access(p, F_OK)
FsExists(f, p) == Key(p) \in DOMAIN f

FsIsDir(f, p) == FsExists(f, p) /\ f[Key(p)].kind = "dir"
FsIsFile(f, p) == FsExists(f, p) /\ f[Key(p)].kind = "file"

\* f without the entries of set gone
Without(f, gone) == [q \in (DOMAIN f) \ gone |-> f[q]]

\* f with entry p set to e
With(f, p, e) == [q \in (DOMAIN f) \cup {p} |-> IF q = p THEN e ELSE f[q]]

Subtree(f, p) == {q \in DOMAIN f : q = p \/ Below(q, p)}

\* rename(2)
FsRename(f, old, new) ==
    LET o == Key(old)
        n == Key(new)
        np == PathDirname(n)
    IN  IF o \notin DOMAIN f THEN Fail("ENOENT", f)
        ELSE IF np \notin DOMAIN f THEN Fail("ENOENT", f)
        ELSE IF f[np].kind # "dir" THEN Fail("ENOTDIR", f)
        ELSE IF o = n THEN Ok(f)
        ELSE IF Below(n, o) THEN Fail("EINVAL", f)
        ELSE IF n \in DOMAIN f /\ f[o].kind = "dir" /\ f[n].kind = "file"
             THEN Fail("ENOTDIR", f)
        ELSE IF n \in DOMAIN f /\ f[o].kind = "file" /\ f[n].kind = "dir"
             THEN Fail("EISDIR", f)
        ELSE IF n \in DOMAIN f /\ \E q \in DOMAIN f : Below(q, n)
             THEN Fail("ENOTEMPTY", f)
        ELSE LET moved == Subtree(f, o)
                 rest == Without(f, moved \cup {n})
                 target(q) == n \o SubSeq(q, Len(o) + 1, Len(q))
             IN  Ok([q \in (DOMAIN rest) \cup {target(m) : m \in moved} |->
                        IF q \in DOMAIN rest THEN rest[q]
                        ELSE f[CHOOSE m \in moved : target(m) = q]])

\* unlink(2)
FsUnlink(f, p) ==
    LET k == Key(p)
    IN  IF k \notin DOMAIN f THEN Fail("ENOENT", f)
        ELSE IF f[k].kind = "dir" THEN Fail("EISDIR", f)
        ELSE Ok(Without(f, {k}))

\* a removal that takes the entry and leaves what is below it
FsRmRecursive_entryOnly(f, p) == Ok(Without(f, {Key(p)}))

\* fs.rm(p, {recursive: true, force: true}): a missing entry is no error
FsRmRecursive(f, p) == Ok(Without(f, Subtree(f, Key(p))))

\* the ancestors of canonical path p, p included, the top directory excluded
Prefixes(p) ==
    LET segs == Segments(p)
    IN  {<<SLASH>> \o JoinSegs(SubSeq(segs, 1, i)) : i \in 1..Len(segs)}

\* fs.mkdir(p, {recursive: true}): creates the missing ancestors as well,
\* succeeds when p is already a directory
FsMkdirRecursive(f, p) ==
    LET chain == Prefixes(Key(p))
    IN  IF \E q \in chain : q \in DOMAIN f /\ f[q].kind = "file"
        THEN Fail(IF FsIsFile(f, p) THEN "EEXIST" ELSE "ENOTDIR", f)
        ELSE Ok([q \in (DOMAIN f) \cup chain |->
                    IF q \in DOMAIN f THEN f[q] ELSE [kind |-> "dir", data |-> 0]])

\* fs.writeFileSync(p, data)
FsWriteFile(f, p, data) ==
    LET k == Key(p)
        kp == PathDirname(k)
    IN  IF kp \notin DOMAIN f THEN Fail("ENOENT", f)
        ELSE IF f[kp].kind # "dir" THEN Fail("ENOTDIR", f)
        ELSE IF k \in DOMAIN f /\ f[k].kind = "dir" THEN Fail("EISDIR", f)
        ELSE Ok(With(f, k, [kind |-> "file", data |-> data]))

-----------------------------------------------------------------------------
(* Values the variables of one part hold while another part runs           *)

NoOperation == [type |-> "none"]
\* a response: the handler, the HTTP status, the error message, the errno
\* name of the filesystem error appended to it (e.message), the absolute
\* paths acted on, the original names of an upload request, and "uploaded",
\* the list the body of a successful upload carries
Response(op, status, error, src, dst, uploaded) ==
    [op |-> op, status |-> status, error |-> error, code |-> "", src |-> src,
     dst |-> dst, names |-> << >>, uploaded |-> uploaded]

\* the response to a filesystem error: `${message}: ${e.message}`
ErrorResponse(op, error, code, src, dst) ==
    [Response(op, 500, error, src, dst, << >>) EXCEPT !.code = code]

NoResponse == Response("none", 0, "", EmptyStr, EmptyStr, << >>)

MainIdle ==
    /\ fs = << >>
    /\ lastOperation = NoOperation
    /\ resp = NoResponse
    /\ emitted = << >>
    /\ prevResp = NoResponse
    /\ nOps = 0

SandboxIdle ==
    /\ candidate = EmptyStr
    /\ verdict = "idle"

PollIdle ==
    /\ mtimeMs = << >>
    /\ lastMtimes = << >>
    /\ pollEmitted = << >>
    /\ pollInfo = << >>
    /\ unreported = << >>

NotifyIdle ==
    /\ clock = 0
    /\ timers = {}
    /\ fsWatchDebounce = 0
    /\ signals = << >>
    /\ broadcasts = << >>

ListIdle ==
    /\ stats = << >>
    /\ page = << >>

ErrorIdle ==
    /\ thrown = << >>
    /\ reply = << >>

RaceIdle ==
    /\ now = 0
    /\ requests = << >>

AuxIdle == NotifyIdle /\ ListIdle /\ ErrorIdle /\ RaceIdle

-----------------------------------------------------------------------------
(* The request handlers.  A handler is an operator from its inputs and the *)
(* current state to its outcome: the filesystem and the undo slot          *)
(* afterwards, the response, and the file_updated events it emitted.       *)

Outcome(f, slot, r, events) ==
    [fs |-> f, lastOperation |-> slot, resp |-> r, emitted |-> events]

\* an early return: nothing changes
Reject(op, status, error) ==
    Outcome(fs, lastOperation,
            Response(op, status, error, EmptyStr, EmptyStr, << >>), << >>)

\* a filesystem call that the environment makes fail (permissions, I/O)
Faulty(fault, result) == IF fault THEN Fail("EACCES", fs) ELSE result

\* isAdmin with every session taken for an admin session
isAdmin_anyone(admin) == TRUE

\* isAdmin, server.js:362-364; admin is req.session.admin of a request that
\* has a session
isAdmin(admin) == admin = TRUE

\* the record of a rename with the new path in both members
RenameRecord_newPathTwice(fullOldPath, newFullPath) ==
    [type |-> "rename", old_path |-> newFullPath, new_path |-> newFullPath]

\* the record rename leaves in the slot, server.js:839-844 (the timestamp
\* is read by no handler)
RenameRecord(fullOldPath, newFullPath) ==
    [type |-> "rename", old_path |-> fullOldPath, new_path |-> newFullPath]

\* the record of a create_folder naming the parent directory
CreateFolderRecord_parent(newFolderPath) ==
    [type |-> "create_folder", path |-> PathDirname(newFolderPath)]

\* the record create_folder leaves in the slot, server.js:741-745
CreateFolderRecord(newFolderPath) ==
    [type |-> "create_folder", path |-> newFolderPath]

\* POST /rename, server.js:800-854
RenameHandler(admin, oldPath, rawName, fault) ==
    LET newName == Trim(rawName)
        fullOldPath == safeJoin(BASE_DIR, oldPath)
        parentDir == PathDirname(fullOldPath)
        newFullPath == PathJoin(parentDir, newName)
        moved == Faulty(fault, FsRename(fs, fullOldPath, newFullPath))
    IN  IF ~isAdmin(admin) THEN Reject("rename", 403, "Admin access required")
        ELSE IF newName = EmptyStr THEN Reject("rename", 400, "New name required")
        ELSE IF ~isValidFileName(newName) \/ ~isValidPath(oldPath)
             THEN Reject("rename", 400, "Invalid file name or path")
        ELSE IF ~isSafePath(fullOldPath, BASE_DIR)
             THEN Reject("rename", 400, "Invalid path")
        ELSE IF ~FsExists(fs, fullOldPath)
             THEN Reject("rename", 404, "Item not found")
        ELSE IF FsExists(fs, newFullPath)
             THEN Outcome(fs, lastOperation,
                          Response("rename", 400, "Name already exists",
                                   fullOldPath, newFullPath, << >>), << >>)
        ELSE IF moved.err # ""
             THEN Outcome(fs, lastOperation,
                          ErrorResponse("rename", "Failed to rename", moved.err,
                                        fullOldPath, newFullPath), << >>)
        ELSE Outcome(moved.fs, RenameRecord(fullOldPath, newFullPath),
                     Response("rename", 200, "", fullOldPath, newFullPath, << >>),
                     <<PathDirname(oldPath)>>)

\* POST /create_folder, server.js:709-754
CreateFolderHandler(admin, currentPath, rawName, fault) ==
    LET folderName == Trim(rawName)
        parentDir == safeJoin(BASE_DIR, currentPath)
        newFolderPath == PathJoin(parentDir, folderName)
        made == Faulty(fault, FsMkdirRecursive(fs, newFolderPath))
    IN  IF ~isAdmin(admin) THEN Reject("create_folder", 403, "Admin access required")
        ELSE IF folderName = EmptyStr
             THEN Reject("create_folder", 400, "Folder name required")
        ELSE IF ~isValidFileName(folderName) \/ ~isValidPath(currentPath)
             THEN Reject("create_folder", 400, "Invalid folder name or path")
        ELSE IF ~isSafePath(parentDir, BASE_DIR)
             THEN Reject("create_folder", 400, "Invalid path")
        ELSE IF FsExists(fs, newFolderPath)
             THEN Outcome(fs, lastOperation,
                          Response("create_folder", 400, "Folder already exists",
                                   parentDir, newFolderPath, << >>), << >>)
        ELSE IF made.err # ""
             THEN Outcome(fs, lastOperation,
                          ErrorResponse("create_folder", "Failed to create folder",
                                        made.err, parentDir, newFolderPath), << >>)
        ELSE Outcome(made.fs, CreateFolderRecord(newFolderPath),
                     Response("create_folder", 200, "", parentDir, newFolderPath, << >>),
                     <<currentPath>>)

\* the slot a delete would leave had it recorded nothing
SlotAfterDelete_unrecorded(slot, fullPath) == slot

\* the slot once delete has stat'ed the item, server.js:773-778
SlotAfterDelete(slot, fullPath) == [type |-> "delete", original_path |-> fullPath]

\* a delete that emits nothing
DeleteEvents_none(itemPath) == << >>

\* the events a delete emits once the entry is removed, server.js:786-788
DeleteEvents(itemPath) == <<PathDirname(itemPath)>>

\* POST /delete, server.js:756-798
DeleteHandler(admin, itemPath, fault) ==
    LET fullPath == safeJoin(BASE_DIR, itemPath)
        removed == Faulty(fault, IF FsIsFile(fs, fullPath)
                                 THEN FsUnlink(fs, fullPath)
                                 ELSE FsRmRecursive(fs, fullPath))
    IN  IF ~isAdmin(admin) THEN Reject("delete", 403, "Admin access required")
        ELSE IF ~isValidPath(itemPath) THEN Reject("delete", 400, "Invalid path")
        ELSE IF ~isSafePath(fullPath, BASE_DIR)
             THEN Reject("delete", 400, "Invalid path")
        ELSE IF ~FsExists(fs, fullPath)
             THEN Reject("delete", 404, "Item not found")
        ELSE IF removed.err # ""
             THEN Outcome(fs, SlotAfterDelete(lastOperation, fullPath),
                          ErrorResponse("delete", "Failed to delete", removed.err,
                                        fullPath, EmptyStr), << >>)
        ELSE Outcome(removed.fs, SlotAfterDelete(lastOperation, fullPath),
                     Response("delete", 200, "", fullPath, EmptyStr, << >>),
                     DeleteEvents(itemPath))

\* the upload branch of undo ending after the first file of the record
UnlinkPresent_firstOnly(f, files, fault) ==
    IF files = << >> \/ ~FsExists(f, Head(files)) THEN Ok(f)
    ELSE FsUnlink(f, Head(files))

\* the upload branch of undo, server.js:866-870: the first call the
\* environment makes fail, or the kernel refuses, ends the loop
RECURSIVE UnlinkPresent(_, _, _)
UnlinkPresent(f, files, fault) ==
    IF files = << >> THEN Ok(f)
    ELSE IF ~FsExists(f, Head(files)) THEN UnlinkPresent(f, Tail(files), fault)
    ELSE IF fault THEN Fail("EACCES", f)
    ELSE LET u == FsUnlink(f, Head(files))
         IN  IF u.err # "" THEN u ELSE UnlinkPresent(u.fs, Tail(files), FALSE)

\* the rename branch with the two paths of the record taken for each other
UndoRename_swapped(f, slot, fault) ==
    IF FsExists(f, slot.old_path)
    THEN (IF fault THEN Fail("EACCES", f)
          ELSE FsRename(f, slot.old_path, slot.new_path))
    ELSE Ok(f)

\* the rename branch of undo, server.js:876-881
UndoRename(f, slot, fault) ==
    IF FsExists(f, slot.new_path)
    THEN (IF fault THEN Fail("EACCES", f)
          ELSE FsRename(f, slot.new_path, slot.old_path))
    ELSE Ok(f)

\* the body of undo's try block up to the clearing of the slot,
\* server.js:862-882
UndoEffect(f, slot, fault) ==
    IF slot.type = "upload" THEN UnlinkPresent(f, slot.files, fault)
    ELSE IF slot.type = "create_folder"
    THEN IF FsExists(f, slot.path)
         THEN (IF fault THEN Fail("EACCES", f) ELSE FsRmRecursive(f, slot.path))
         ELSE Ok(f)
    ELSE IF slot.type = "rename" THEN UndoRename(f, slot, fault)
    ELSE Ok(f)

\* what undo leaves in the slot after the try block threw, server.js:891-893
SlotAfterFailedUndo(slot) == slot

\* the slot had undo not cleared it
SlotAfterUndo_kept(slot) == slot

\* what undo leaves in the slot at the end of the try block, server.js:884-885
SlotAfterUndo(slot) == NoOperation

\* POST /undo, server.js:856-894
UndoHandler(admin, fault) ==
    LET undone == UndoEffect(fs, lastOperation, fault)
    IN  IF ~isAdmin(admin) THEN Reject("undo", 403, "Admin access required")
        ELSE IF lastOperation = NoOperation
             THEN Reject("undo", 400, "No operation to undo")
        ELSE IF undone.err # ""
             THEN Outcome(undone.fs, SlotAfterFailedUndo(lastOperation),
                          ErrorResponse("undo", "Failed to undo", undone.err,
                                        EmptyStr, EmptyStr), << >>)
        ELSE Outcome(undone.fs, SlotAfterUndo(lastOperation),
                     Response("undo", 200, "", EmptyStr, EmptyStr, << >>),
                     <<EmptyStr>>)

Digits == <<"0", "1", "2", "3", "4", "5", "6", "7", "8", "9">>

\* `${counter}`: the decimal digits of a number
RECURSIVE Decimal(_)
Decimal(k) ==
    IF k < 10 THEN <<Digits[k + 1]>>
    ELSE Decimal(k \div 10) \o <<Digits[(k % 10) + 1]>>

\* the first value of counter at which the while loop of server.js:616-624
\* stops
FirstFreeCounter(taken, counter) ==
    CHOOSE k \in counter..(counter + Cardinality(taken)) :
        /\ k \notin taken
        /\ \A j \in counter..(k - 1) : j \in taken

\* `${name}_${counter}${ext}`, server.js:619-621
SuffixedName(originalName, counter) ==
    LET ext == PathExtname(originalName)
        name == PathBasename(originalName, ext)
    IN  name \o <<"_">> \o Decimal(counter) \o ext

\* the file stored under the name the client gave, whatever is there
StoredName_unchecked(f, uploadDir, originalName) == originalName

\* the name the file is stored under, server.js:612-624: the original name
\* when it is free, otherwise the suffixed name of the lowest counter >= 1
\* that is free
StoredName(f, uploadDir, originalName) ==
    IF ~FsExists(f, PathJoin(uploadDir, originalName)) THEN originalName
    ELSE LET taken == {k \in 1..Cardinality(DOMAIN f) :
                          FsExists(f, PathJoin(uploadDir, SuffixedName(originalName, k)))}
         IN  SuffixedName(originalName, FirstFreeCounter(taken, 1))

\* moving one temp file into place, server.js:627-638: renameSync, and on
\* EXDEV (or EPERM) read, write and unlink; any other error is thrown
MoveIntoPlace(f, tempPath, filePath, fault, exdev) ==
    IF fault THEN Fail("EACCES", f)
    ELSE IF exdev
    THEN LET w == FsWriteFile(f, filePath, f[Key(tempPath)].data)
         IN  IF w.err # "" THEN w ELSE FsUnlink(w.fs, tempPath)
    ELSE FsRename(f, tempPath, filePath)

\* the loop of server.js:609-644 from file i on; failAt is the index of the
\* file whose move the environment makes fail (0: none)
RECURSIVE SaveFiles(_, _, _, _, _, _, _)
SaveFiles(f, uploadDir, files, i, uploadedFiles, failAt, exdev) ==
    IF i > Len(files) THEN [err |-> "", fs |-> f, uploaded |-> uploadedFiles]
    ELSE LET filename == StoredName(f, uploadDir, files[i].originalname)
             filePath == PathJoin(uploadDir, filename)
             moved == MoveIntoPlace(f, files[i].path, filePath, failAt = i, exdev)
         IN  IF moved.err # ""
             THEN [err |-> moved.err, fs |-> moved.fs, uploaded |-> uploadedFiles]
             ELSE SaveFiles(moved.fs, uploadDir, files, i + 1,
                            Append(uploadedFiles, filename), failAt, exdev)

\* cleanupTempFiles leaving every temp file where it is
cleanupTempFiles_skipped(f, files) == f

\* cleanupTempFiles, server.js:589-593: errors are swallowed
RECURSIVE cleanupTempFiles(_, _)
cleanupTempFiles(f, files) ==
    IF files = << >> THEN f
    ELSE cleanupTempFiles(FsUnlink(f, Head(files).path).fs, Tail(files))

\* multer's disk storage, server.js:274-281: every file of the request is
\* written to the temp directory before the handler runs
RECURSIVE StoreTempFiles(_, _)
StoreTempFiles(f, files) ==
    IF files = << >> THEN f
    ELSE StoreTempFiles(FsWriteFile(f, Head(files).path, Head(files).data).fs,
                        Tail(files))

\* the files of an upload request: the names the client gave, the temp path
\* multer chose and the content, which no other file of the run has
RequestFiles(names) ==
    [i \in 1..Len(names) |->
        [originalname |-> names[i],
         path |-> PathJoin(TEMP_DIR, Decimal(i)),
         data |-> 10 * (nOps + 1) + i]]

\* POST /upload, server.js:584-657, once multer has written the files of the
\* request to the temp directory: f0 is the filesystem the handler finds
SaveUpload(f0, currentPath, files, failAt, exdev) ==
    LET names == [i \in 1..Len(files) |-> files[i].originalname]
        uploadDir == safeJoin(BASE_DIR, currentPath)
        saved == SaveFiles(f0, uploadDir, files, 1, << >>, failAt, exdev)
    IN  IF ~isSafePath(uploadDir, BASE_DIR)
        THEN Outcome(cleanupTempFiles(f0, files), lastOperation,
                     Response("upload", 400, "Invalid path",
                              EmptyStr, EmptyStr, << >>), << >>)
        ELSE IF ~FsExists(f0, uploadDir)
        THEN Outcome(cleanupTempFiles(f0, files), lastOperation,
                     Response("upload", 400, "Directory does not exist",
                              EmptyStr, EmptyStr, << >>), << >>)
        ELSE IF saved.err # ""
        THEN Outcome(cleanupTempFiles(saved.fs, files), lastOperation,
                     [ErrorResponse("upload", "Failed to save", saved.err,
                                    EmptyStr, uploadDir) EXCEPT !.names = names],
                     << >>)
        ELSE Outcome(saved.fs,
                     [type |-> "upload",
                      files |-> [i \in 1..Len(saved.uploaded) |->
                                    PathJoin(uploadDir, saved.uploaded[i])]],
                     [Response("upload", 200, "", EmptyStr, uploadDir, saved.uploaded)
                        EXCEPT !.names = names],
                     <<currentPath>>)

\* a whole upload request: multer's storage, then the handler
UploadHandler(currentPath, names, failAt, exdev) ==
    SaveUpload(StoreTempFiles(fs, RequestFiles(names)), currentPath,
               RequestFiles(names), failAt, exdev)

-----------------------------------------------------------------------------
(* The server as a state machine: one action per request handler, plus the *)
(* writes other processes make to the tree (scp, rsync, cp).               *)

MaxOps == 3
MaxBatch == 2

Str_a == <<"a">>
Str_b == <<"b">>
Str_ft == <<"f", DOT, "t">>
Str_ag == <<"a", SLASH, "g">>
Str_up == <<DOT, DOT>>
Str_upv == <<DOT, DOT, SLASH, "v">>

\* the tree at startup: the top directory, the root with a file, a folder
\* and a file in the folder, and the temp directory
InitialFs ==
    LET dir == [kind |-> "dir", data |-> 0]
    IN  (<<SLASH>> :> dir) @@ (BASE_DIR :> dir) @@ (TEMP_DIR :> dir)
        @@ (PathJoin(BASE_DIR, Str_a) :> dir)
        @@ (PathJoin(BASE_DIR, Str_ft) :> [kind |-> "file", data |-> 1])
        @@ (PathJoin(BASE_DIR, Str_ag) :> [kind |-> "file", data |-> 2])

\* req.body.path of upload and create_folder
DirPaths == {EmptyStr, Str_a, Str_up}

\* req.body.path of delete and rename
ItemPaths == {EmptyStr, Str_a, Str_ft, Str_ag}

\* req.body.name of create_folder and rename
RawNames == {Str_b, Str_ft, Str_upv, <<" ">>, <<":">>}

\* the original names of uploaded files
UploadNames == {Str_ft}

Batches == UNION {[1..n -> UploadNames] : n \in 0..MaxBatch}

\* the entries another process writes or removes
OutOfBandPaths == {PathJoin(BASE_DIR, Str_ft), PathJoin(BASE_DIR, Str_b)}

Init ==
    /\ fs = InitialFs
    /\ lastOperation = NoOperation
    /\ resp = NoResponse
    /\ emitted = << >>
    /\ prevResp = NoResponse
    /\ nOps = 0
    /\ SandboxIdle
    /\ PollIdle
    /\ AuxIdle

\* a handler ran to its response
Handled(outcome) ==
    /\ nOps < MaxOps
    /\ \E out \in {outcome} :
        /\ fs' = out.fs
        /\ lastOperation' = out.lastOperation
        /\ resp' = out.resp
        /\ emitted' = out.emitted
    /\ prevResp' = resp
    /\ nOps' = nOps + 1
    /\ UNCHANGED <<sandboxVars, pollVars, auxVars>>

\* how the moves of one upload request go: every renameSync succeeds, every
\* renameSync throws EXDEV (the temp directory is on another device), or the
\* move of file failAt throws another error
MoveModes(names) ==
    {[failAt |-> 0, exdev |-> FALSE], [failAt |-> 0, exdev |-> TRUE]}
    \cup {[failAt |-> i, exdev |-> FALSE] : i \in 1..Len(names)}

Upload ==
    \E currentPath \in DirPaths, names \in Batches :
        \E mode \in MoveModes(names) :
            Handled(UploadHandler(currentPath, names, mode.failAt, mode.exdev))

\* adminRequired (server.js:366-371) answers a request without an admin
\* session before the handler reads any of its inputs: one such request
\* stands for all of them
InputsOf(admin, inputs) ==
    IF isAdmin(admin) THEN inputs ELSE {CHOOSE x \in inputs : TRUE}

CreateFolder ==
    \E admin \in BOOLEAN :
        \E currentPath \in InputsOf(admin, DirPaths), name \in InputsOf(admin, RawNames),
           fault \in InputsOf(admin, BOOLEAN) :
            Handled(CreateFolderHandler(admin, currentPath, name, fault))

Delete ==
    \E admin \in BOOLEAN :
        \E itemPath \in InputsOf(admin, ItemPaths), fault \in InputsOf(admin, BOOLEAN) :
            Handled(DeleteHandler(admin, itemPath, fault))

Rename ==
    \E admin \in BOOLEAN :
        \E oldPath \in InputsOf(admin, ItemPaths), name \in InputsOf(admin, RawNames),
           fault \in InputsOf(admin, BOOLEAN) :
            Handled(RenameHandler(admin, oldPath, name, fault))

Undo ==
    \E admin \in BOOLEAN :
        \E fault \in InputsOf(admin, BOOLEAN) :
            Handled(UndoHandler(admin, fault))

\* another process creates a file or a directory at p, or removes p
OutOfBandOutcome(p, what) ==
    LET r == IF what = "file" THEN FsWriteFile(fs, p, 9)
             ELSE IF what = "dir" THEN FsMkdirRecursive(fs, p)
             ELSE FsRmRecursive(fs, p)
    IN  Outcome(r.fs, lastOperation,
                Response("out_of_band", 0, r.err, p, EmptyStr, << >>), << >>)

OutOfBand ==
    \E p \in OutOfBandPaths, what \in {"file", "dir", "remove"} :
        LET out == OutOfBandOutcome(p, what)
        IN  /\ out.fs # fs
            /\ Handled(out)

Next ==
    \/ Upload
    \/ CreateFolder
    \/ Delete
    \/ Rename
    \/ Undo
    \/ OutOfBand

Spec == Init /\ [][Next]_vars

-----------------------------------------------------------------------------
(* Properties of the request handlers                                      *)

Mutations == {"upload", "create_folder", "delete", "rename", "undo"}

\* the paths whose entry differs between two filesystems
Changed(f, g) ==
    {p \in (DOMAIN f) \cup (DOMAIN g) :
        \/ p \notin DOMAIN f
        \/ p \notin DOMAIN g
        \/ f[p] # g[p]}

\* the step is a request to handler op that passed the admin check and in
\* which the environment made no filesystem call fail
Served(op) ==
    /\ resp'.op = op
    /\ resp'.status # 403
    /\ resp'.code # "EACCES"

Succeeded(r, op) == r.op = op /\ r.status = 200

\* C2: every location a mutating operation creates, moves an entry to or
\* removes lies inside the root; the destination of an accepted rename is a
\* direct child of the parent directory of the renamed entry, and the
\* directory made by an accepted create_folder a direct child of its parent.
C2_MutationsStayInsideRoot ==
    [][/\ resp'.op \in Mutations => \A p \in Changed(fs, fs') : InsideRoot(p)
       /\ Succeeded(resp', "rename") =>
            /\ InsideRoot(resp'.dst)
            /\ PathDirname(resp'.dst) = PathDirname(resp'.src)
       /\ Succeeded(resp', "create_folder") =>
            /\ InsideRoot(resp'.dst)
            /\ PathDirname(resp'.dst) = resp'.src]_vars

\* the name file i of a successful upload must get when the entries of
\* `present` exist: the desired name if free, otherwise the suffixed name
\* with the lowest k >= 1 that is free
IsLowestFreeName(name, desired, dir, present) ==
    IF PathJoin(dir, desired) \notin present THEN name = desired
    ELSE \E k \in 1..(Cardinality(present) + 1) :
            /\ name = SuffixedName(desired, k)
            /\ PathJoin(dir, name) \notin present
            /\ \A j \in 1..(k - 1) : PathJoin(dir, SuffixedName(desired, j)) \in present

\* C3: an upload stores each file under the desired name if that name is
\* free in the destination and otherwise under <base>_<k><ext> with the
\* lowest free k >= 1, and no upload request changes or removes an entry
\* that existed before it.
C3_UploadNeverOverwrites ==
    [][resp'.op = "upload" =>
        /\ \A p \in DOMAIN fs : p \in DOMAIN fs' /\ fs'[p] = fs[p]
        /\ resp'.status = 200 =>
            /\ Len(resp'.uploaded) = Len(resp'.names)
            /\ \A i \in 1..Len(resp'.uploaded) :
                /\ IsLowestFreeName(
                      resp'.uploaded[i], resp'.names[i], resp'.dst,
                      (DOMAIN fs) \cup {PathJoin(resp'.dst, resp'.uploaded[j]) :
                                            j \in 1..(i - 1)})
                /\ FsIsFile(fs', PathJoin(resp'.dst, resp'.uploaded[i]))
                /\ fs'[PathJoin(resp'.dst, resp'.uploaded[i])].data
                      = RequestFiles(resp'.names)[i].data]_vars

\* x.txt is there: a batch of two more files of that name was stored as
\* x_1.txt and x_2.txt
C3_Witness ==
    /\ Succeeded(resp, "upload")
    /\ resp.names = <<Str_ft, Str_ft>>
    /\ resp.uploaded = <<SuffixedName(Str_ft, 1), SuffixedName(Str_ft, 2)>>

\* C4: an undo right after a successful rename puts the entry back at the
\* old path and leaves nothing at the new one; after two successful renames
\* in a row it reverses the second only, the result of the first stays.
C4_UndoReversesLastRename ==
    [][(Succeeded(resp, "rename") /\ Served("undo")) =>
        /\ resp'.status = 200
        /\ Key(resp.src) \in DOMAIN fs'
        /\ Key(resp.dst) \notin DOMAIN fs'
        /\ fs'[Key(resp.src)] = fs[Key(resp.dst)]
        /\ Succeeded(prevResp, "rename") =>
            /\ Key(prevResp.dst) \in DOMAIN fs'
            /\ Key(prevResp.src) \notin DOMAIN fs']_vars

\* two renames of different entries, then an undo
C4_Witness ==
    /\ nOps = 3
    /\ Succeeded(resp, "undo")
    /\ lastOperation = NoOperation
    /\ PathJoin(BASE_DIR, Str_b) \in DOMAIN fs
    /\ PathJoin(BASE_DIR, Str_ft) \notin DOMAIN fs
    /\ PathJoin(BASE_DIR, Str_ag) \in DOMAIN fs
    /\ prevResp.op = "rename"
    /\ prevResp.src = PathJoin(BASE_DIR, Str_ag)

\* the slot was empty when the request answered by resp arrived: it was the
\* first request, or it followed an undo that had cleared the slot
SlotWasEmptyBefore == prevResp.op = "none" \/ Succeeded(prevResp, "undo")

Reversible == {"upload", "create_folder", "rename"}

\* the entries request r created or moved into place
Produced(r) ==
    IF r.op = "upload"
    THEN {PathJoin(r.dst, r.uploaded[i]) : i \in 1..Len(r.uploaded)}
    ELSE {Key(r.dst)}

\* the delete answered by d removed an entry that is none of those r
\* produced, nor above or below one of them
DeletedAnother(d, r) ==
    \A p \in Produced(r) :
        /\ p # Key(d.src)
        /\ ~Below(p, Key(d.src))
        /\ ~Below(Key(d.src), p)

\* resp answers a successful delete that followed a successful reversible
\* mutation of other entries, and the step is an undo
UndoAfterMutationAndDelete ==
    /\ prevResp.op \in Reversible
    /\ prevResp.status = 200
    /\ Produced(prevResp) # {}
    /\ Succeeded(resp, "delete")
    /\ DeletedAnother(resp, prevResp)
    /\ Served("undo")

C7_UndoAlwaysClearsSlot ==
    [][(lastOperation # NoOperation /\ resp'.op = "undo" /\ resp'.status # 403)
        => lastOperation' = NoOperation]_vars

\* C8: an undo that finds the slot empty answers "No operation to undo",
\* changes neither the filesystem nor the slot and emits nothing; so a
\* second undo right after a successful one gets that answer.
C8_UndoOnEmptySlot ==
    [][/\ (lastOperation = NoOperation /\ resp'.op = "undo" /\ resp'.status # 403) =>
            /\ resp'.status = 400
            /\ resp'.error = "No operation to undo"
            /\ fs' = fs
            /\ lastOperation' = NoOperation
            /\ emitted' = << >>
       /\ (Succeeded(resp, "undo") /\ resp'.op = "undo" /\ resp'.status # 403) =>
            /\ resp'.status = 400
            /\ resp'.error = "No operation to undo"]_vars

\* a mutation, its undo, and a second undo that found the slot empty
C8_Witness ==
    /\ nOps = 3
    /\ Succeeded(prevResp, "undo")
    /\ resp.op = "undo"
    /\ resp.status = 400
    /\ resp.error = "No operation to undo"
    /\ fs = InitialFs

-----------------------------------------------------------------------------
(* The polling detector, server.js:1036-1061.  mtimeMs maps every          *)
(* directory of the tree to its modification time; other processes and the *)
(* handlers change the tree between two sweeps.                            *)

MaxMtime == 2
MaxSweeps == 3

\* the directories the tree may hold
PollDirs ==
    {BASE_DIR, PathJoin(BASE_DIR, Str_a), PathJoin(BASE_DIR, Str_b),
     PathJoin(BASE_DIR, <<"a", SLASH, "b">>)}

\* path.relative(from, to) for a directory `to` that is `from` or below it
PathRelative(from, to) ==
    IF to = from THEN EmptyStr ELSE SubSeq(to, Len(from) + 2, Len(to))

\* the orders a finite set can be listed in
RECURSIVE Listings(_)
Listings(S) ==
    IF S = {} THEN {<< >>}
    ELSE UNION {{<<x>> \o l : l \in Listings(S \ {x})} : x \in S}

SubDirs(tree, dir) == {d \in DOMAIN tree : d # dir /\ PathDirname(d) = dir}

\* the orders in which the loop of server.js:1042-1056 can pop the
\* directories, given the stack: readdirSync lists the entries of a
\* directory in an order the filesystem chooses
RECURSIVE VisitOrders(_, _)
VisitOrders(tree, stack) ==
    IF stack = << >> THEN {<< >>}
    ELSE LET dir == stack[Len(stack)]
             rest == SubSeq(stack, 1, Len(stack) - 1)
         IN  UNION {{<<dir>> \o o : o \in VisitOrders(tree, rest \o entries)} :
                        entries \in Listings(SubDirs(tree, dir))}

\* the emission test with the has() half left out
ShouldEmit_anyDifference(last, dir, mtime) ==
    IF dir \in DOMAIN last THEN last[dir] # mtime ELSE TRUE

\* server.js:1048
ShouldEmit(last, dir, mtime) == dir \in DOMAIN last /\ last[dir] # mtime

\* rel === '.' ? '' : rel, server.js:1049
EventPath(dir) ==
    LET rel == PathRelative(BASE_DIR, dir)
    IN  IF rel = <<DOT>> THEN EmptyStr ELSE rel

\* the baseline had a completed sweep only added the directories new to it
BaselineAfterSweep_neverRefreshed(last, newMtimes, failAt) ==
    IF failAt = 0 THEN last @@ newMtimes ELSE last

\* lastMtimes after the sweep: server.js:1057 is not reached when a call of
\* the loop threw
BaselineAfterSweep(last, newMtimes, failAt) ==
    IF failAt = 0 THEN newMtimes ELSE last

\* one call of pollForChanges: the directories are popped in `order`;
\* readdirSync or statSync throws at directory number failAt (0: never),
\* which ends the sweep in the catch block
pollForChanges(order, failAt) ==
    LET visited == IF failAt = 0 THEN order ELSE SubSeq(order, 1, failAt - 1)
        changed == SelectSeq(visited,
                             LAMBDA d : ShouldEmit(lastMtimes, d, mtimeMs[d]))
        newMtimes == [d \in {visited[i] : i \in 1..Len(visited)} |-> mtimeMs[d]]
    IN  [emitted |-> [i \in 1..Len(changed) |-> EventPath(changed[i])],
         lastMtimes |-> BaselineAfterSweep(lastMtimes, newMtimes, failAt)]

\* unreported: the directories another process has modified since an event
\* was last sent for them, each with the modification time it had before.
\* The modified directories a sweep that sent `events` leaves unreported:
StillPending(waiting, events) ==
    [d \in {e \in DOMAIN waiting :
                \A i \in 1..Len(events) : events[i] # EventPath(e)} |-> waiting[d]]

\* the unreported directories once the tree became `tree`: a directory
\* that is modified joins them with the time it had, one that is removed or
\* given back the time it had leaves them
PendingAfter(waiting, tree) ==
    LET before(d) == IF d \in DOMAIN waiting THEN waiting[d] ELSE mtimeMs[d]
    IN  [d \in {e \in (DOMAIN tree) \cap (DOMAIN mtimeMs) : tree[e] # before(e)} |->
            before(d)]

\* pollInfo: the number of sweeps run so far, whether the last one was
\* aborted, whether the tree has changed since the last one (changed) and
\* since the last one that completed (stale), and whether the last sweep
\* ran with stale false (quiet)
PollTrees ==
    {t \in UNION {[D -> 1..MaxMtime] : D \in SUBSET PollDirs} :
        /\ BASE_DIR \in DOMAIN t
        /\ \A d \in DOMAIN t : d = BASE_DIR \/ PathDirname(d) \in DOMAIN t}

PollInit ==
    /\ mtimeMs \in PollTrees
    /\ lastMtimes = << >>
    /\ pollEmitted = << >>
    /\ pollInfo = [sweeps |-> 0, aborted |-> FALSE, changed |-> FALSE,
                   stale |-> FALSE, quiet |-> FALSE]
    /\ unreported = << >>
    /\ MainIdle
    /\ SandboxIdle
    /\ AuxIdle

\* setInterval(pollForChanges, 5000) and the call at startup
Poll ==
    /\ pollInfo.sweeps < MaxSweeps
    /\ \E order \in VisitOrders(mtimeMs, <<BASE_DIR>>) :
        \E failAt \in 0..Len(order) :
            \E out \in {pollForChanges(order, failAt)} :
                /\ lastMtimes' = out.lastMtimes
                /\ pollEmitted' = out.emitted
                /\ pollInfo' = [sweeps |-> pollInfo.sweeps + 1,
                                aborted |-> failAt # 0,
                                changed |-> FALSE,
                                stale |-> pollInfo.stale /\ failAt # 0,
                                quiet |-> ~pollInfo.stale]
    /\ UNCHANGED <<mtimeMs, mainVars, sandboxVars, auxVars>>

\* the tree became `tree`
TreeChanged(tree) ==
    /\ pollInfo.sweeps # 0
    /\ mtimeMs' = tree
    /\ pollInfo' = [pollInfo EXCEPT !.changed = TRUE, !.stale = TRUE]
    /\ UNCHANGED <<lastMtimes, pollEmitted, mainVars, sandboxVars, auxVars>>

\* an entry is added to, removed from or renamed in directory dir
TouchDir ==
    \E dir \in DOMAIN mtimeMs, t \in 1..MaxMtime :
        /\ t # mtimeMs[dir]
        /\ TreeChanged([mtimeMs EXCEPT ![dir] = t])

\* a directory is created: its parent is modified
MakeDir ==
    \E dir \in PollDirs \ DOMAIN mtimeMs, t, tp \in 1..MaxMtime :
        /\ PathDirname(dir) \in DOMAIN mtimeMs
        /\ tp # mtimeMs[PathDirname(dir)]
        /\ TreeChanged([d \in (DOMAIN mtimeMs) \cup {dir} |->
                          IF d = dir THEN t
                          ELSE IF d = PathDirname(dir) THEN tp
                          ELSE mtimeMs[d]])

\* a directory is removed with all below it: its parent is modified
RemoveDir ==
    \E dir \in (DOMAIN mtimeMs) \ {BASE_DIR}, tp \in 1..MaxMtime :
        /\ tp # mtimeMs[PathDirname(dir)]
        /\ TreeChanged([d \in {e \in DOMAIN mtimeMs : e # dir /\ ~Below(e, dir)} |->
                          IF d = PathDirname(dir) THEN tp ELSE mtimeMs[d]])

PollNext ==
    \/ Poll /\ UNCHANGED unreported
    \/ TouchDir /\ UNCHANGED unreported
    \/ MakeDir /\ UNCHANGED unreported
    \/ RemoveDir /\ UNCHANGED unreported

SpecPoll == PollInit /\ [][PollNext]_vars

\* the detector with the record of the modifications it has yet to report
PollRecordedNext ==
    \/ Poll /\ unreported' = StillPending(unreported, pollEmitted')
    \/ TouchDir /\ unreported' = PendingAfter(unreported, mtimeMs')
    \/ MakeDir /\ unreported' = PendingAfter(unreported, mtimeMs')
    \/ RemoveDir /\ unreported' = PendingAfter(unreported, mtimeMs')

SpecPollRecorded == PollInit /\ [][PollRecordedNext]_vars

\* the step is a sweep
Sweep == pollInfo'.sweeps = pollInfo.sweeps + 1

C10_FirstSweepOnlyRecordsBaseline ==
    [][(Sweep /\ pollInfo.sweeps = 0) =>
        /\ pollEmitted' = << >>
        /\ ~pollInfo'.aborted => lastMtimes' = mtimeMs]_vars

\* the first sweep completed on a tree of three directories
C10_Witness ==
    /\ pollInfo.sweeps = 1
    /\ ~pollInfo.aborted
    /\ Cardinality(DOMAIN lastMtimes) = 3
    /\ lastMtimes = mtimeMs
    /\ pollEmitted = << >>

-----------------------------------------------------------------------------
(* The sandbox check applied to every short client path                    *)

MaxPathLen == 5

\* the characters a client path is built from: separators, dots, the
\* letter of the root's name and one more character
PathAlphabet == {SLASH, DOT, "u", "2"}

RECURSIVE StringsUpTo(_, _)
StringsUpTo(alphabet, n) ==
    IF n = 0 THEN {EmptyStr}
    ELSE LET shorter == StringsUpTo(alphabet, n - 1)
         IN  shorter \cup {Append(s, c) : s \in shorter, c \in alphabet}

Candidates == StringsUpTo(PathAlphabet, MaxPathLen)

\* the check every handler makes on a client path (e.g. server.js:765-768)
SandboxAccepts(clientPath) == isSafePath(safeJoin(BASE_DIR, clientPath), BASE_DIR)

SandboxInit ==
    /\ candidate \in Candidates
    /\ verdict = "pending"
    /\ MainIdle
    /\ PollIdle
    /\ AuxIdle

SandboxCheck ==
    /\ verdict = "pending"
    /\ verdict' = IF SandboxAccepts(candidate) THEN "accepted" ELSE "rejected"
    /\ UNCHANGED <<candidate, mainVars, pollVars, auxVars>>

SandboxNext == SandboxCheck

SpecSandbox == SandboxInit /\ [][SandboxNext]_vars

\* C1: every client path whose canonical resolution against the root is
\* neither the root nor a descendant of it (in whole segments) is rejected
\* by safeJoin followed by isSafePath.
C1_EscapingPathRejected ==
    (verdict \in {"accepted", "rejected"} /\ ~InsideRoot(safeJoin(BASE_DIR, candidate)))
        => verdict = "rejected"

-----------------------------------------------------------------------------
(* Change notifications.  Three places send file_updated to the observers: *)
(* the request handlers, right after the mutation (server.js:654, 748,     *)
(* 788, 848, 888); the polling detector, inside its sweep                  *)
(* (server.js:1049); and the callback of fs.watch, through a timeout that  *)
(* every new event of the watcher restarts (server.js:1025-1034).          *)

DebounceMs == 500
MaxClock == 1000
MaxSignals == 4

\* the amounts of time that pass between two steps
Delays == {100, DebounceMs}

\* the filename argument of the watcher's callback: an entry of the root,
\* an entry of a folder, none (null)
WatchFilenames == {Str_ft, Str_ag, EmptyStr}

\* the path member of the events handlers and sweeps send
EventPaths == {Str_a}

NotifyInit ==
    /\ clock = 0
    /\ timers = {}
    /\ fsWatchDebounce = 0
    /\ signals = << >>
    /\ broadcasts = << >>
    /\ MainIdle
    /\ SandboxIdle
    /\ PollIdle
    /\ RaceIdle
    /\ ListIdle
    /\ ErrorIdle

Signal(origin) == [at |-> clock, origin |-> origin]
Broadcast(origin, path) == [at |-> clock, origin |-> origin, path |-> path]

\* clearTimeout(id) without effect
ClearTimeout_ignored(pending, id) == pending

\* clearTimeout(id), server.js:1027: a timeout that already ran, or id 0
\* (null), is no timeout of the set
ClearTimeout(pending, id) == {t \in pending : t.id # id}

\* setTimeout(callback, ms): the identifier of the new timeout
NextTimeoutId == Len(signals) + 1

\* the callback of fs.watch, server.js:1026-1034
WatchEvent ==
    /\ Len(signals) < MaxSignals
    /\ \E filename \in WatchFilenames :
        /\ timers' = ClearTimeout(timers, fsWatchDebounce)
                        \cup {[id |-> NextTimeoutId, due |-> clock + DebounceMs,
                               filename |-> filename]}
        /\ fsWatchDebounce' = NextTimeoutId
    /\ signals' = Append(signals, Signal("watch"))
    /\ UNCHANGED <<clock, broadcasts, mainVars, sandboxVars, raceVars, pollVars, listVars,
                   errorVars>>

\* the path sent without '.' being replaced
WatchEventPath_dirname(filename) == PathDirname(filename)

\* the path the timeout's callback sends, server.js:1029-1030
WatchEventPath(filename) ==
    LET dir == IF filename # EmptyStr THEN PathDirname(filename) ELSE EmptyStr
    IN  IF dir = <<DOT>> THEN EmptyStr ELSE dir

\* a timeout of the watcher is due and its callback runs, server.js:1028-1033
TimeoutRuns ==
    /\ \E t \in timers :
        /\ t.due <= clock
        /\ timers' = timers \ {t}
        /\ broadcasts' = Append(broadcasts, Broadcast("watch", WatchEventPath(t.filename)))
    /\ UNCHANGED <<clock, fsWatchDebounce, signals, mainVars, sandboxVars, raceVars, pollVars,
                   listVars, errorVars>>

\* io.to('file_browser').emit('file_updated', ...) called directly
EmitNow(origin, path) ==
    /\ Len(signals) < MaxSignals
    /\ signals' = Append(signals, Signal(origin))
    /\ broadcasts' = Append(broadcasts, Broadcast(origin, path))
    /\ UNCHANGED <<clock, timers, fsWatchDebounce, mainVars, sandboxVars, raceVars, pollVars,
                   listVars, errorVars>>

\* a mutating handler succeeded, e.g. server.js:748
HandlerEmits == \E path \in EventPaths : EmitNow("handler", path)

\* a sweep found a directory with another mtime, server.js:1048-1050
PollEmits == \E path \in EventPaths : EmitNow("poll", path)

\* time passes; a timeout runs when it is due, before more time passes
TimePasses ==
    /\ \E d \in Delays :
        /\ clock + d <= MaxClock
        /\ \A t \in timers : clock + d <= t.due
        /\ clock' = clock + d
    /\ UNCHANGED <<timers, fsWatchDebounce, signals, broadcasts, mainVars,
                   sandboxVars, raceVars, pollVars, listVars, errorVars>>

NotifyNext ==
    \/ WatchEvent
    \/ TimeoutRuns
    \/ HandlerEmits
    \/ PollEmits
    \/ TimePasses

SpecNotify == NotifyInit /\ [][NotifyNext]_vars

\* the signals i..j were raised within one debounce window
InOneWindow(i, j) == signals[j].at - signals[i].at < DebounceMs

SentFrom(origin) == {k \in 1..Len(broadcasts) : broadcasts[k].origin = origin}
RaisedBy(origin) == {i \in 1..Len(signals) : signals[i].origin = origin}

-----------------------------------------------------------------------------
(* Listings: GET / (server.js:439-547) and GET /api/files                  *)
(* (server.js:927-991).  stats maps every entry to its size and its        *)
(* modification time in milliseconds; an item of a listing carries the     *)
(* time cut to whole seconds (server.js:483).                              *)

MsPerSecond == 1000

Str_C == <<"C">>
Str_D == <<"D">>
Str_z == <<"z">>
Str_hidden == <<DOT, "h">>

\* the tree listed: in the root two folders and two files, in one of the
\* folders a file and a hidden file
ListingFs ==
    LET dir == [kind |-> "dir", data |-> 0]
        file == [kind |-> "file", data |-> 1]
    IN  (<<SLASH>> :> dir) @@ (BASE_DIR :> dir)
        @@ (PathJoin(BASE_DIR, Str_a) :> dir)
        @@ (PathJoin(BASE_DIR, Str_C) :> dir)
        @@ (PathJoin(BASE_DIR, Str_ag) :> file)
        @@ (PathJoin(BASE_DIR, Str_b) :> file)
        @@ (PathJoin(BASE_DIR, Str_D) :> file)
        @@ (PathJoin(PathJoin(BASE_DIR, Str_a), Str_hidden) :> file)

Mtimes == {0, 500, 1000}
Sizes == {1, 2}

\* the sizes and modification times the entries of ListingFs may have
ListingStats ==
    {[q \in DOMAIN ListingFs |->
        IF q = PathJoin(BASE_DIR, Str_a) THEN [size |-> 0, mtime |-> ma]
        ELSE IF q = PathJoin(BASE_DIR, Str_b) THEN [size |-> sb, mtime |-> mb]
        ELSE IF q = PathJoin(BASE_DIR, Str_D) THEN [size |-> 2, mtime |-> md]
        ELSE IF ListingFs[q].kind = "file" THEN [size |-> 1, mtime |-> 500]
        ELSE [size |-> 0, mtime |-> 500]] :
        ma \in Mtimes, mb \in Mtimes, md \in Mtimes, sb \in Sizes}

\* req.query.path
ListPaths == {EmptyStr, Str_a, Str_b, Str_z, Str_up}

\* req.query.search
Searches == {EmptyStr, Str_a}

\* req.query.sort
SortKeys == {"name", "size", "modified"}

\* req.query.order
Orders == {"asc", "desc"}

\* req.query.limit: absent or 1
Limits == {0, 1}

\* the last segment of canonical path q
EntryName(q) == Segments(q)[Len(Segments(q))]

\* the entries directly in directory p
ChildrenOf(f, p) == {q \in DOMAIN f : q # Key(p) /\ q # <<SLASH>> /\ PathDirname(q) = Key(p)}

\* getFileSize, server.js:291-313: the size of a file, the total of the
\* entries of a directory, 0 for what cannot be read
RECURSIVE getFileSize(_, _, _)
RECURSIVE TotalSize(_, _, _)
getFileSize(f, st, filePath) ==
    IF ~FsExists(f, filePath) THEN 0
    ELSE IF FsIsFile(f, filePath) THEN st[Key(filePath)].size
    ELSE TotalSize(f, st, ChildrenOf(f, filePath))

\* the loop of server.js:298-306 over the entries of a directory
TotalSize(f, st, entries) ==
    IF entries = {} THEN 0
    ELSE LET subPath == CHOOSE q \in entries : TRUE
         IN  getFileSize(f, st, subPath) + TotalSize(f, st, entries \ {subPath})

\* isHidden, server.js:354-360, on a platform other than win32
isHidden(filename) == StartsWith(filename, <<DOT>>)

\* String.prototype.includes
Includes(s, t) == \E i \in 0..(Len(s) - Len(t)) : SubSeq(s, i + 1, i + Len(t)) = t

\* the orders in which readdir may return the names of a directory
ReaddirOrders(f, p) ==
    LET names == {EntryName(q) : q \in ChildrenOf(f, p)}
        n == Cardinality(names)
    IN  {o \in [1..n -> names] : \A i, j \in 1..n : i # j => o[i] # o[j]}

\* the item pushed for one name, server.js:478-486 and 962-970 (the
\* formatted size, the icon and the path members are derived from these)
ItemOf(f, st, fullPath, item) ==
    LET itemPath == PathJoin(fullPath, item)
    IN  [name |-> item,
         is_dir |-> FsIsDir(f, itemPath),
         size |-> getFileSize(f, st, itemPath),
         modified |-> st[Key(itemPath)].mtime \div MsPerSecond]

\* the loop over the names readdir returned, server.js:466-487
RECURSIVE CollectItems(_, _, _, _, _)
CollectItems(f, st, fullPath, files, searchQuery) ==
    IF files = << >> THEN << >>
    ELSE LET item == Head(files)
             rest == CollectItems(f, st, fullPath, Tail(files), searchQuery)
         IN  IF searchQuery # EmptyStr /\ ~Includes(ToLower(item), ToLower(searchQuery))
             THEN rest
             ELSE IF isHidden(item) THEN rest
             ELSE <<ItemOf(f, st, fullPath, item)>> \o rest

\* the characters of the names in the order of the collation
Collation == <<DOT, "0", "1", "2", "3", "4", "5", "6", "7", "8", "9">> \o LowerCase

CollationRank(c) == CHOOSE i \in 1..Len(Collation) : Collation[i] = c

\* a.localeCompare(b) for lower-case names
RECURSIVE LocaleCompare(_, _)
LocaleCompare(a, b) ==
    IF a = EmptyStr /\ b = EmptyStr THEN 0
    ELSE IF a = EmptyStr THEN -1
    ELSE IF b = EmptyStr THEN 1
    ELSE IF CollationRank(Head(a)) < CollationRank(Head(b)) THEN -1
    ELSE IF CollationRank(Head(a)) > CollationRank(Head(b)) THEN 1
    ELSE LocaleCompare(Tail(a), Tail(b))

\* new Date(item.modified): milliseconds
DateOf(modified) == modified * MsPerSecond

\* the variable comparison, server.js:504-511
KeyComparison(a, b, sortBy) ==
    IF sortBy = "size" THEN a.size - b.size
    ELSE IF sortBy = "modified" THEN DateOf(a.modified) - DateOf(b.modified)
    ELSE LocaleCompare(ToLower(a.name), ToLower(b.name))

\* the comparator with the order taken for ascending whatever was asked
CompareItems_neverReversed(a, b, sortBy, reverse) ==
    IF a.is_dir # b.is_dir THEN (IF a.is_dir THEN -1 ELSE 1)
    ELSE KeyComparison(a, b, sortBy)

\* the comparator of GET /, server.js:498-514
CompareItems(a, b, sortBy, reverse) ==
    IF a.is_dir # b.is_dir THEN (IF a.is_dir THEN -1 ELSE 1)
    ELSE IF reverse THEN 0 - KeyComparison(a, b, sortBy)
    ELSE KeyComparison(a, b, sortBy)

\* the comparator of GET /api/files, server.js:978-983
CompareNewestFirst(a, b) ==
    IF a.is_dir # b.is_dir THEN (IF a.is_dir THEN -1 ELSE 1)
    ELSE DateOf(b.modified) - DateOf(a.modified)

\* how a listing is sorted: by the comparator of GET / with a key and an
\* order, or by the comparator of GET /api/files
Compare(a, b, how) ==
    IF how.api THEN CompareNewestFirst(a, b)
    ELSE CompareItems(a, b, how.sortBy, how.reverse)

\* Array.prototype.sort, which is stable: x goes behind the items that do
\* not compare greater
RECURSIVE InsertItem(_, _, _)
InsertItem(sorted, x, how) ==
    IF sorted = << >> THEN <<x>>
    ELSE IF Compare(x, sorted[Len(sorted)], how) < 0
    THEN Append(InsertItem(SubSeq(sorted, 1, Len(sorted) - 1), x, how),
                sorted[Len(sorted)])
    ELSE Append(sorted, x)

RECURSIVE SortItems(_, _)
SortItems(items, how) ==
    IF items = << >> THEN << >>
    ELSE InsertItem(SortItems(SubSeq(items, 1, Len(items) - 1), how),
                    items[Len(items)], how)

Page(op, status, error, target, items, sortBy, order) ==
    [op |-> op, status |-> status, error |-> error, target |-> target,
     items |-> items, sort_by |-> sortBy, order |-> order]

\* res.redirect('/')
Redirect(target) == Page("index", 302, "", target, << >>, "", "")

\* GET /, server.js:439-547; files is what readdir returns, fault makes
\* readdir throw
IndexHandler(currentPath, searchQuery, sort, order, files, fault) ==
    LET fullPath == safeJoin(BASE_DIR, currentPath)
        sortBy == IF sort = "" THEN "name" ELSE sort
        reverse == order = "desc"
        items == IF FsIsDir(fs, fullPath)
                 THEN CollectItems(fs, stats, fullPath, files, searchQuery)
                 ELSE << >>
    IN  IF ~isValidPath(currentPath) \/ ~isValidPath(searchQuery)
        THEN Redirect(EmptyStr)
        ELSE IF ~isSafePath(fullPath, BASE_DIR) THEN Redirect(fullPath)
        ELSE IF ~FsExists(fs, fullPath) THEN Redirect(fullPath)
        ELSE IF FsIsDir(fs, fullPath) /\ fault THEN Redirect(fullPath)
        ELSE Page("index", 200, "", fullPath,
                  SortItems(items, [api |-> FALSE, sortBy |-> sortBy, reverse |-> reverse]),
                  sortBy, IF order = "" THEN "asc" ELSE order)

\* GET /api/files, server.js:927-991
ApiFilesHandler(currentPath, limit, files, fault) ==
    LET fullPath == safeJoin(BASE_DIR, currentPath)
        items == IF FsIsDir(fs, fullPath)
                 THEN CollectItems(fs, stats, fullPath, files, EmptyStr)
                 ELSE << >>
        sorted == SortItems(items, [api |-> TRUE])
    IN  IF ~isValidPath(currentPath)
        THEN Page("api_files", 400, "Invalid path", EmptyStr, << >>, "", "")
        ELSE IF ~isSafePath(fullPath, BASE_DIR)
        THEN Page("api_files", 400, "Invalid path", fullPath, << >>, "", "")
        ELSE IF ~FsExists(fs, fullPath)
        THEN Page("api_files", 404, "Path not found", fullPath, << >>, "", "")
        ELSE IF FsIsDir(fs, fullPath) /\ fault
        THEN Page("api_files", 403, "Permission denied", fullPath, << >>, "", "")
        ELSE Page("api_files", 200, "", fullPath,
                  IF limit > 0 /\ limit < Len(sorted)
                  THEN SubSeq(sorted, 1, limit) ELSE sorted,
                  "modified", "desc")

ListInit ==
    /\ fs = ListingFs
    /\ stats \in ListingStats
    /\ page = << >>
    /\ lastOperation = NoOperation
    /\ resp = NoResponse
    /\ emitted = << >>
    /\ prevResp = NoResponse
    /\ nOps = 0
    /\ SandboxIdle
    /\ PollIdle
    /\ RaceIdle
    /\ NotifyIdle
    /\ ErrorIdle

\* what readdir returns for the directory a request names (nothing to
\* return when it names no directory)
ReaddirResults(currentPath) ==
    LET fullPath == safeJoin(BASE_DIR, currentPath)
    IN  IF FsIsDir(fs, fullPath) THEN ReaddirOrders(fs, fullPath) ELSE {<< >>}

Index ==
    /\ page = << >>
    /\ \E currentPath \in ListPaths :
        \E files \in ReaddirResults(currentPath) :
            \E searchQuery \in Searches, sort \in SortKeys, order \in Orders,
               fault \in BOOLEAN :
                page' = IndexHandler(currentPath, searchQuery, sort, order, files, fault)
    /\ UNCHANGED <<stats, mainVars, sandboxVars, raceVars, pollVars, notifyVars, errorVars>>

ApiFiles ==
    /\ page = << >>
    /\ \E currentPath \in ListPaths :
        \E files \in ReaddirResults(currentPath) :
            \E limit \in Limits, fault \in BOOLEAN :
                page' = ApiFilesHandler(currentPath, limit, files, fault)
    /\ UNCHANGED <<stats, mainVars, sandboxVars, raceVars, pollVars, notifyVars, errorVars>>

ListNext ==
    \/ Index
    \/ ApiFiles

SpecListing == ListInit /\ [][ListNext]_vars

\* the key of item a does not come after the key of item b
KeyLeq(a, b, sortBy) ==
    IF sortBy = "size" THEN a.size <= b.size
    ELSE IF sortBy = "modified" THEN a.modified <= b.modified
    ELSE LocaleCompare(ToLower(a.name), ToLower(b.name)) <= 0

\* the names GET / must show for a directory: those not hidden
VisibleNames(f, p) == {n \in {EntryName(q) : q \in ChildrenOf(f, p)} : ~isHidden(n)}

\* C12: in every page GET / renders, for every sort key and both orders,
\* all directories precede all files, and within the directories and within
\* the files the keys do not decrease (asc) or do not increase (desc);
\* without a search the page shows every entry that is not hidden, once.
C12_ListingSortedDirectoriesFirst ==
    (page # << >> /\ page.op = "index" /\ page.status = 200) =>
        /\ \A i, j \in 1..Len(page.items) :
            i < j =>
                /\ page.items[j].is_dir => page.items[i].is_dir
                /\ (page.items[i].is_dir = page.items[j].is_dir) =>
                      IF page.order = "desc"
                      THEN KeyLeq(page.items[j], page.items[i], page.sort_by)
                      ELSE KeyLeq(page.items[i], page.items[j], page.sort_by)
        /\ \A i, j \in 1..Len(page.items) :
            i # j => page.items[i].name # page.items[j].name
        /\ {page.items[i].name : i \in 1..Len(page.items)}
              \subseteq VisibleNames(fs, page.target)

\* the root listed by size, descending: the two folders first, the larger
\* before the empty one, then the two files, the larger first
C12_Witness ==
    /\ page # << >>
    /\ page.op = "index"
    /\ page.status = 200
    /\ page.sort_by = "size"
    /\ page.order = "desc"
    /\ Len(page.items) = 4
    /\ page.items[1].is_dir /\ page.items[2].is_dir
    /\ ~page.items[3].is_dir /\ ~page.items[4].is_dir
    /\ page.items[1].size > page.items[2].size
    /\ page.items[3].size > page.items[4].size

\* C13: a listing request for a path that does not exist fails with
\* NotFound, one for a regular file fails with NotADirectory, and a listing
\* is answered with success only for an existing directory.
C13_ListingOnlyOfDirectories ==
    (page # << >> /\ page.target # EmptyStr /\ isSafePath(page.target, BASE_DIR)) =>
        /\ ~FsExists(fs, page.target) => page.status = 404
        /\ FsIsFile(fs, page.target) => page.status \notin {200, 302, 404}
        /\ page.status = 200 => FsIsDir(fs, page.target)

-----------------------------------------------------------------------------
(* Error replies.  A handler that catches a filesystem error answers 500   *)
(* with a text built from e.message, which Node composes as                *)
(* "CODE: description, syscall 'path'" or "... 'path' -> 'dest'".  Texts   *)
(* are character sequences, so that the regular expressions of             *)
(* sanitizeError (server.js:426-436) act on them character by character.   *)

\* the string literals of the error bodies and of e.message
Txt ==
    [FilePath |->
        <<"[", "f", "i", "l", "e", " ", "p", "a", "t", "h", "]">>,
     NotFound |->
        <<"F", "i", "l", "e", " ", "o", "r", " ", "d", "i", "r", "e", "c",
        "t", "o", "r", "y", " ", "n", "o", "t", " ", "f", "o", "u", "n",
        "d">>,
     Denied |->
        <<"P", "e", "r", "m", "i", "s", "s", "i", "o", "n", " ", "d", "e",
        "n", "i", "e", "d">>,
     NotPermitted |->
        <<"O", "p", "e", "r", "a", "t", "i", "o", "n", " ", "n", "o", "t",
        " ", "p", "e", "r", "m", "i", "t", "t", "e", "d">>,
     ItemNotFound |->
        <<"I", "t", "e", "m", " ", "n", "o", "t", " ", "f", "o", "u", "n",
        "d">>,
     ENOENT |->
        <<"E", "N", "O", "E", "N", "T">>,
     EACCES |->
        <<"E", "A", "C", "C", "E", "S">>,
     EPERM |->
        <<"E", "P", "E", "R", "M">>,
     ENOTEMPTY |->
        <<"E", "N", "O", "T", "E", "M", "P", "T", "Y">>,
     DescENOENT |->
        <<"n", "o", " ", "s", "u", "c", "h", " ", "f", "i", "l", "e", " ",
        "o", "r", " ", "d", "i", "r", "e", "c", "t", "o", "r", "y">>,
     DescEACCES |->
        <<"p", "e", "r", "m", "i", "s", "s", "i", "o", "n", " ", "d", "e",
        "n", "i", "e", "d">>,
     DescEPERM |->
        <<"o", "p", "e", "r", "a", "t", "i", "o", "n", " ", "n", "o", "t",
        " ", "p", "e", "r", "m", "i", "t", "t", "e", "d">>,
     DescENOTEMPTY |->
        <<"d", "i", "r", "e", "c", "t", "o", "r", "y", " ", "n", "o", "t",
        " ", "e", "m", "p", "t", "y">>,
     FailedToSave |->
        <<"F", "a", "i", "l", "e", "d", " ", "t", "o", " ", "s", "a", "v",
        "e", " ">>,
     FailedToCreate |->
        <<"F", "a", "i", "l", "e", "d", " ", "t", "o", " ", "c", "r", "e",
        "a", "t", "e", " ", "f", "o", "l", "d", "e", "r", ":", " ">>,
     FailedToDelete |->
        <<"F", "a", "i", "l", "e", "d", " ", "t", "o", " ", "d", "e", "l",
        "e", "t", "e", ":", " ">>,
     FailedToRename |->
        <<"F", "a", "i", "l", "e", "d", " ", "t", "o", " ", "r", "e", "n",
        "a", "m", "e", ":", " ">>,
     FailedToUndo |->
        <<"F", "a", "i", "l", "e", "d", " ", "t", "o", " ", "u", "n", "d",
        "o", ":", " ">>,
     rename |->
        <<"r", "e", "n", "a", "m", "e">>,
     mkdir |->
        <<"m", "k", "d", "i", "r">>,
     unlink |->
        <<"u", "n", "l", "i", "n", "k">>]


COLON == ":"
QUOTE == "'"

\* the codes of the errors thrown, as e.code names them
Errnos == {"ENOENT", "EACCES", "EPERM", "ENOTEMPTY"}

ErrnoText(code) ==
    IF code = "ENOENT" THEN Txt.ENOENT
    ELSE IF code = "EACCES" THEN Txt.EACCES
    ELSE IF code = "EPERM" THEN Txt.EPERM
    ELSE Txt.ENOTEMPTY

ErrnoDescription(code) ==
    IF code = "ENOENT" THEN Txt.DescENOENT
    ELSE IF code = "EACCES" THEN Txt.DescEACCES
    ELSE IF code = "EPERM" THEN Txt.DescEPERM
    ELSE Txt.DescENOTEMPTY

\* the system call a handler fails in
SyscallOf(op) ==
    IF op = "create_folder" THEN Txt.mkdir
    ELSE IF op = "delete" THEN Txt.unlink
    ELSE Txt.rename

\* e.message of the error thrown by a filesystem call
MessageOf(e) ==
    ErrnoText(e.code) \o <<COLON, " ">> \o ErrnoDescription(e.code) \o <<",", " ">>
    \o SyscallOf(e.op) \o <<" ", QUOTE>> \o e.path \o <<QUOTE>>
    \o (IF SyscallOf(e.op) = Txt.rename
        THEN <<" ", "-", ">", " ", QUOTE>> \o e.dest \o <<QUOTE>>
        ELSE EmptyStr)

\* the least number of a non-empty set
Least(S) == CHOOSE i \in S : \A k \in S : i <= k

\* the index of the last character of the longest run of characters other
\* than ":" that starts at i (i - 1 when there is none): [^:]+
RunEnd(s, i) ==
    LET stops == {j \in i..Len(s) : s[j] = COLON}
    IN  IF stops = {} THEN Len(s) ELSE Least(stops) - 1

IsLetter(c) ==
    \E k \in 1..26 : c = UpperCase[k] \/ c = LowerCase[k]

\* /[A-Za-z]:[\\\/][^:]+/ matches at index i
DrivePathAt(s, i) ==
    /\ i + 3 <= Len(s)
    /\ IsLetter(s[i])
    /\ s[i + 1] = COLON
    /\ s[i + 2] \in {SLASH, "\\"}
    /\ s[i + 3] # COLON

\* s.replace(/[A-Za-z]:[\\\/][^:]+/g, '[file path]') from index i on
RECURSIVE ReplaceDrivePaths(_, _)
ReplaceDrivePaths(s, i) ==
    LET hits == {m \in i..Len(s) : DrivePathAt(s, m)}
    IN  IF hits = {} THEN SubSeq(s, i, Len(s))
        ELSE SubSeq(s, i, Least(hits) - 1) \o Txt.FilePath
             \o ReplaceDrivePaths(s, RunEnd(s, Least(hits) + 3) + 1)

\* /\/[^:]+/ matches at index i
SlashPathAt(s, i) ==
    /\ i + 1 <= Len(s)
    /\ s[i] = SLASH
    /\ s[i + 1] # COLON

\* s.replace(/\/[^:]+/g, '[file path]') from index i on
RECURSIVE ReplaceSlashPaths(_, _)
ReplaceSlashPaths(s, i) ==
    LET hits == {m \in i..Len(s) : SlashPathAt(s, m)}
    IN  IF hits = {} THEN SubSeq(s, i, Len(s))
        ELSE SubSeq(s, i, Least(hits) - 1) \o Txt.FilePath
             \o ReplaceSlashPaths(s, RunEnd(s, Least(hits) + 1) + 1)

\* s.replace(/WORD.*/, text): the first occurrence of word and all that
\* follows it (the texts have one line)
ReplaceFrom(s, word, text) ==
    LET hits == {i \in 1..(Len(s) - Len(word) + 1) : SubSeq(s, i, i + Len(word) - 1) = word}
    IN  IF hits = {} THEN s
        ELSE SubSeq(s, 1, Least(hits) - 1) \o text

\* sanitizeError, server.js:426-436, for a string argument
sanitizeError(error) ==
    ReplaceFrom(
        ReplaceFrom(
            ReplaceFrom(ReplaceSlashPaths(ReplaceDrivePaths(error, 1), 1),
                        Txt.ENOENT, Txt.NotFound),
            Txt.EACCES, Txt.Denied),
        Txt.EPERM, Txt.NotPermitted)

\* the error member of the body a handler answers from its catch block:
\* server.js:642 (upload), 752 (create_folder), 791-796 (delete),
\* 852 (rename), 892 (undo)
ErrorBody(e) ==
    IF e.op = "upload"
    THEN Txt.FailedToSave \o e.originalname \o <<COLON, " ">> \o MessageOf(e)
    ELSE IF e.op = "create_folder"
    THEN sanitizeError(Txt.FailedToCreate \o MessageOf(e))
    ELSE IF e.op = "delete"
    THEN (IF e.code = "ENOENT" THEN Txt.ItemNotFound
          ELSE sanitizeError(Txt.FailedToDelete \o MessageOf(e)))
    ELSE IF e.op = "rename"
    THEN sanitizeError(Txt.FailedToRename \o MessageOf(e))
    ELSE Txt.FailedToUndo \o MessageOf(e)

\* the entries a failing call names: one in the root, one in a folder, one
\* whose name holds a colon (made by another process)
ErrorPaths ==
    {PathJoin(BASE_DIR, Str_b), PathJoin(BASE_DIR, Str_ag),
     PathJoin(BASE_DIR, <<"c", COLON, "d">>)}

\* the errors a handler may catch
ThrownErrors ==
    {[op |-> op, code |-> code, path |-> path,
      dest |-> PathJoin(BASE_DIR, Str_ft), originalname |-> Str_ft] :
        op \in Mutations, code \in Errnos, path \in ErrorPaths}

ErrorInit ==
    /\ thrown \in ThrownErrors
    /\ reply = << >>
    /\ MainIdle
    /\ SandboxIdle
    /\ PollIdle
    /\ RaceIdle
    /\ NotifyIdle
    /\ ListIdle

\* the catch block answers
Catch ==
    /\ reply = << >>
    /\ reply' = ErrorBody(thrown)
    /\ UNCHANGED <<thrown, mainVars, sandboxVars, raceVars, pollVars, notifyVars, listVars>>

ErrorNext == Catch

SpecErrors == ErrorInit /\ [][ErrorNext]_vars

\* text t names an absolute path: a path of the error occurs in it, or a
\* separator followed by the name of an entry
NamesAbsolutePath(t, e) ==
    \/ Includes(t, e.path)
    \/ Includes(t, e.dest)
    \/ Includes(t, BASE_DIR \o <<SLASH>>)

\* C15: no error body answered by upload, create folder, delete, rename or
\* undo holds an absolute filesystem path.
C15_ErrorBodiesHoldNoAbsolutePath ==
    reply # << >> => ~NamesAbsolutePath(reply, thrown)

-----------------------------------------------------------------------------
(* More properties of the request handlers                                 *)

\* the entries a step put under the root
MovedIntoPlace == {q \in (DOMAIN fs') \ (DOMAIN fs) : InsideRoot(q)}

\* C14: an upload that fails on one file after other files of the request
\* were moved into place answers with the names of the files that were
\* stored, next to the error.
C14_PartialUploadNamesStoredFiles ==
    [][(resp'.op = "upload" /\ resp'.status = 500 /\ MovedIntoPlace # {}) =>
        {PathJoin(resp'.dst, resp'.uploaded[i]) : i \in 1..Len(resp'.uploaded)}
            = MovedIntoPlace]_vars

\* the state after a step is the state before it, and nothing was emitted
NothingDone ==
    /\ fs' = fs
    /\ lastOperation' = lastOperation
    /\ emitted' = << >>

\* no regular file lies on the way from the top directory to path p
NoFileAbove(f, p) == \A q \in Prefixes(Key(p)) : ~FsIsFile(f, q)

\* C16: a create_folder request for a name that exists in the parent is
\* answered "Folder already exists", changes neither the filesystem nor the
\* slot and emits nothing; for a name that does not exist (and a parent
\* that is no regular file) it makes the directory, changes no entry that
\* was there, and leaves in the slot the create_folder record of exactly
\* that directory.
C16_CreateFolderRefusesExistingName ==
    [][(Served("create_folder") /\ resp'.dst # EmptyStr) =>
        IF FsExists(fs, resp'.dst)
        THEN /\ resp'.status = 400
             /\ resp'.error = "Folder already exists"
             /\ NothingDone
        ELSE NoFileAbove(fs, resp'.dst) =>
             /\ resp'.status = 200
             /\ FsIsDir(fs', resp'.dst)
             /\ \A q \in DOMAIN fs : q \in DOMAIN fs' /\ fs'[q] = fs[q]
             /\ lastOperation' = [type |-> "create_folder", path |-> resp'.dst]]_vars

\* folder b was made in the root, and a second request for the same name
\* was refused
C16_Witness ==
    /\ nOps = 2
    /\ Succeeded(prevResp, "create_folder")
    /\ prevResp.dst = PathJoin(BASE_DIR, Str_b)
    /\ resp.op = "create_folder"
    /\ resp.error = "Folder already exists"
    /\ resp.dst = PathJoin(BASE_DIR, Str_b)
    /\ lastOperation = [type |-> "create_folder", path |-> PathJoin(BASE_DIR, Str_b)]
    /\ FsIsDir(fs, PathJoin(BASE_DIR, Str_b))

\* C17: a rename request to a name that exists in the parent directory of
\* the entry is answered "Name already exists" and changes neither the
\* filesystem nor the slot; to a name that does not exist it moves the
\* entry, with all below it, to the new path and leaves in the slot the
\* rename record of the old and the new absolute path.
C17_RenameRefusesExistingName ==
    [][(Served("rename") /\ resp'.dst # EmptyStr) =>
        IF FsExists(fs, resp'.dst)
        THEN /\ resp'.status = 400
             /\ resp'.error = "Name already exists"
             /\ NothingDone
        ELSE /\ resp'.status = 200
             /\ Key(resp'.src) \notin DOMAIN fs'
             /\ Key(resp'.dst) \in DOMAIN fs'
             /\ fs'[Key(resp'.dst)] = fs[Key(resp'.src)]
             /\ Cardinality(DOMAIN fs') = Cardinality(DOMAIN fs)
             /\ lastOperation' = [type |-> "rename", old_path |-> resp'.src,
                                  new_path |-> resp'.dst]]_vars

\* a/g was renamed to a/b, and the request to rename f.t to f.t was refused
C17_Witness ==
    /\ nOps = 2
    /\ Succeeded(prevResp, "rename")
    /\ prevResp.src = PathJoin(BASE_DIR, Str_ag)
    /\ resp.op = "rename"
    /\ resp.error = "Name already exists"
    /\ resp.src = PathJoin(BASE_DIR, Str_ft)
    /\ lastOperation = [type |-> "rename", old_path |-> PathJoin(BASE_DIR, Str_ag),
                        new_path |-> PathJoin(PathJoin(BASE_DIR, Str_a), Str_b)]
    /\ PathJoin(BASE_DIR, Str_ag) \notin DOMAIN fs
    /\ PathJoin(BASE_DIR, Str_ft) \in DOMAIN fs

RefusedUnchanged(out) ==
    /\ out.resp.status = 403
    /\ out.fs = fs
    /\ out.lastOperation = lastOperation
    /\ out.emitted = << >>

\* C19: in every state, a create_folder, delete, rename or undo request
\* without an admin session is answered 403 whatever its inputs, changes
\* neither the filesystem nor the slot and emits nothing.
C19_NonAdminRequestsChangeNothing ==
    /\ \A currentPath \in DirPaths, name \in RawNames, fault \in BOOLEAN :
          RefusedUnchanged(CreateFolderHandler(FALSE, currentPath, name, fault))
    /\ \A itemPath \in ItemPaths, fault \in BOOLEAN :
          RefusedUnchanged(DeleteHandler(FALSE, itemPath, fault))
    /\ \A oldPath \in ItemPaths, name \in RawNames, fault \in BOOLEAN :
          RefusedUnchanged(RenameHandler(FALSE, oldPath, name, fault))
    /\ \A fault \in BOOLEAN : RefusedUnchanged(UndoHandler(FALSE, fault))

\* a rename was recorded, and then an undo and a delete without an admin
\* session were refused: the record and the renamed entry are still there
C19_Witness ==
    /\ nOps = 3
    /\ lastOperation.type = "rename"
    /\ prevResp.op = "undo" /\ prevResp.status = 403
    /\ resp.op = "delete" /\ resp.status = 403
    /\ FsExists(fs, lastOperation.new_path)
    /\ ~FsExists(fs, lastOperation.old_path)

\* C20: an upload, create_folder, delete or rename request that is answered
\* with an error leaves the slot as it was.
C20_FailedMutationKeepsSlot ==
    [][(resp'.op \in {"upload", "create_folder", "delete", "rename"}
            /\ resp'.status # 200)
        => lastOperation' = lastOperation]_vars

\* the temp files a filesystem holds
TempFiles(f) == {q \in DOMAIN f : Below(q, TEMP_DIR)}

\* C21: a step that handles an upload request, however it ends, leaves a
\* filesystem that holds no temp file and in which every entry that was
\* there is unchanged; when it ends with "Failed to save", the files it
\* stored under the root are the first files of the request, up to the one
\* whose move failed, each with the content the client sent.
C21_UploadLeavesNoTempFile ==
    [][resp'.op = "upload" =>
        LET files == RequestFiles(resp'.names)
            stored == MovedIntoPlace
        IN  /\ TempFiles(fs') = {}
            /\ \A q \in DOMAIN fs : q \in DOMAIN fs' /\ fs'[q] = fs[q]
            /\ resp'.error = "Failed to save" =>
                  /\ resp'.status = 500
                  /\ \E failAt \in 1..Len(files) :
                        /\ Cardinality(stored) = failAt - 1
                        /\ {fs'[q].data : q \in stored}
                              = {files[i].data : i \in 1..(failAt - 1)}]_vars

\* a request of two files named f.t failed on the second: the first is
\* stored as f_1.t, and the temp directory is empty
C21_Witness ==
    /\ resp.op = "upload"
    /\ resp.status = 500
    /\ Len(resp.names) = 2
    /\ prevResp = NoResponse
    /\ FsIsFile(fs, PathJoin(BASE_DIR, SuffixedName(Str_ft, 1)))
    /\ ~FsExists(fs, PathJoin(BASE_DIR, SuffixedName(Str_ft, 2)))
    /\ TempFiles(fs) = {}

-----------------------------------------------------------------------------
(* Requests in flight together.  Node runs one callback at a time: a        *)
(* handler runs without interruption up to its next await, and the call it *)
(* awaits (of fs.promises) takes effect at some later moment, after which  *)
(* the handler resumes in a callback of its own.  The handlers of upload   *)
(* and undo have no await; multer writes the files of an upload to the     *)
(* temp directory before the upload handler is called.                     *)

MaxRequests == 3
MaxNow == 1

\* the requests clients send: all come with an admin session
RaceRequests ==
    {[op |-> "upload", path |-> EmptyStr, name |-> Str_ft],
     [op |-> "create_folder", path |-> EmptyStr, name |-> Str_b],
     [op |-> "delete", path |-> Str_b, name |-> EmptyStr],
     [op |-> "rename", path |-> Str_ft, name |-> Str_b],
     [op |-> "undo", path |-> EmptyStr, name |-> EmptyStr]}

\* a request nothing has been done for yet; files, isFile, full and target
\* are the handler's req.files, stats.isFile(), fullPath (newFolderPath,
\* fullOldPath) and newFullPath once it has computed them
Request(t) ==
    [op |-> t.op, path |-> t.path, name |-> t.name, pc |-> "new",
     files |-> << >>, isFile |-> FALSE, full |-> EmptyStr, target |-> EmptyStr,
     resp |-> NoResponse]

RaceInit ==
    /\ fs = InitialFs
    /\ lastOperation = NoOperation
    /\ resp = NoResponse
    /\ emitted = << >>
    /\ prevResp = NoResponse
    /\ nOps = 0
    /\ now = 0
    /\ requests \in [1..MaxRequests -> {Request(t) : t \in RaceRequests}]
    /\ SandboxIdle
    /\ PollIdle
    /\ NotifyIdle
    /\ ListIdle
    /\ ErrorIdle

\* one callback of request r ran: the filesystem, the slot, the events it
\* emitted, and the request afterwards
Ran(r, f, slot, events, req) ==
    /\ fs' = f
    /\ lastOperation' = slot
    /\ emitted' = events
    /\ requests' = [requests EXCEPT ![r] = req]
    /\ UNCHANGED <<now, resp, prevResp, nOps, sandboxVars, pollVars, notifyVars,
                   listVars, errorVars>>

\* request r is answered
Answered(req, response) == [req EXCEPT !.pc = "done", !.resp = response]

\* a millisecond passes
Tick ==
    /\ now < MaxNow
    /\ now' = now + 1
    /\ UNCHANGED <<requests, mainVars, sandboxVars, pollVars, notifyVars, listVars,
                   errorVars>>

\* the name multer's storage gives the temp file, server.js:276-280
TempName(t, originalName) == Decimal(t) \o <<"-">> \o originalName

\* multer writes the file of upload request r to the temp directory
UploadStored(r) ==
    LET req == requests[r]
    IN  /\ req.op = "upload" /\ req.pc = "new"
        /\ \E files \in {<<[originalname |-> req.name,
                            path |-> PathJoin(TEMP_DIR, TempName(now, req.name)),
                            data |-> 100 + r]>>} :
            Ran(r, StoreTempFiles(fs, files), lastOperation, << >>,
                [req EXCEPT !.pc = "stored", !.files = files])

\* the handler of upload request r, server.js:584-657
UploadSaved(r) ==
    LET req == requests[r]
    IN  /\ req.op = "upload" /\ req.pc = "stored"
        /\ \E out \in {SaveUpload(fs, req.path, req.files, 0, FALSE)} :
            Ran(r, out.fs, out.lastOperation, out.emitted, Answered(req, out.resp))

\* create_folder up to the result of access, server.js:709-735
CreateFolderAccess(r) ==
    LET req == requests[r]
    IN  /\ req.op = "create_folder" /\ req.pc = "new"
        /\ \E whole \in {CreateFolderHandler(TRUE, req.path, req.name, FALSE).resp} :
            Ran(r, fs, lastOperation, << >>,
                IF whole.status = 400 THEN Answered(req, whole)
                ELSE [req EXCEPT !.pc = "mkdir", !.full = whole.dst])

\* mkdir takes effect, server.js:738; an error is answered at 751-753
CreateFolderMkdir(r) ==
    LET req == requests[r]
    IN  /\ req.op = "create_folder" /\ req.pc = "mkdir"
        /\ \E made \in {FsMkdirRecursive(fs, req.full)} :
            Ran(r, made.fs, lastOperation, << >>,
                IF made.err # ""
                THEN Answered(req, ErrorResponse("create_folder", "Failed to create folder",
                                                 made.err, EmptyStr, req.full))
                ELSE [req EXCEPT !.pc = "record"])

\* create_folder after mkdir, server.js:740-750
CreateFolderDone(r) ==
    LET req == requests[r]
    IN  /\ req.op = "create_folder" /\ req.pc = "record"
        /\ Ran(r, fs, CreateFolderRecord(req.full), <<req.path>>,
               Answered(req, Response("create_folder", 200, "", EmptyStr, req.full, << >>)))

\* delete up to the result of stat, server.js:756-771; ENOENT is answered
\* at 791-793
DeleteStat(r) ==
    LET req == requests[r]
    IN  /\ req.op = "delete" /\ req.pc = "new"
        /\ \E whole \in {DeleteHandler(TRUE, req.path, FALSE).resp} :
            Ran(r, fs, lastOperation, << >>,
                IF whole.status # 200 THEN Answered(req, whole)
                ELSE [req EXCEPT !.pc = "record", !.full = whole.src,
                                 !.isFile = FsIsFile(fs, whole.src)])

\* delete after stat: the record is written and the removal begun,
\* server.js:773-784
DeleteRecorded(r) ==
    LET req == requests[r]
    IN  /\ req.op = "delete" /\ req.pc = "record"
        /\ Ran(r, fs, SlotAfterDelete(lastOperation, req.full), << >>,
               [req EXCEPT !.pc = "remove"])

\* unlink or rm takes effect, server.js:780-784; an error is answered at
\* 791-797
DeleteRemoved(r) ==
    LET req == requests[r]
    IN  /\ req.op = "delete" /\ req.pc = "remove"
        /\ \E removed \in {IF req.isFile THEN FsUnlink(fs, req.full)
                           ELSE FsRmRecursive(fs, req.full)} :
            Ran(r, removed.fs, lastOperation, << >>,
                IF removed.err = "ENOENT"
                THEN Answered(req, Response("delete", 404, "Item not found",
                                            req.full, EmptyStr, << >>))
                ELSE IF removed.err # ""
                THEN Answered(req, ErrorResponse("delete", "Failed to delete",
                                                 removed.err, req.full, EmptyStr))
                ELSE [req EXCEPT !.pc = "emit"])

\* delete after the removal, server.js:786-790
DeleteDone(r) ==
    LET req == requests[r]
    IN  /\ req.op = "delete" /\ req.pc = "emit"
        /\ Ran(r, fs, lastOperation, DeleteEvents(req.path),
               Answered(req, Response("delete", 200, "", req.full, EmptyStr, << >>)))

\* rename up to the result of the first access, server.js:800-826
RenameAccess(r) ==
    LET req == requests[r]
    IN  /\ req.op = "rename" /\ req.pc = "new"
        /\ \E whole \in {RenameHandler(TRUE, req.path, req.name, FALSE).resp} :
            Ran(r, fs, lastOperation, << >>,
                IF whole.status \in {400, 404} /\ whole.error # "Name already exists"
                THEN Answered(req, whole)
                ELSE [req EXCEPT !.pc = "access", !.full = whole.src,
                                 !.target = whole.dst])

\* the result of the second access, server.js:828-833
RenameAccessNew(r) ==
    LET req == requests[r]
    IN  /\ req.op = "rename" /\ req.pc = "access"
        /\ Ran(r, fs, lastOperation, << >>,
               IF FsExists(fs, req.target)
               THEN Answered(req, Response("rename", 400, "Name already exists",
                                           req.full, req.target, << >>))
               ELSE [req EXCEPT !.pc = "rename"])

\* rename takes effect, server.js:836; an error is answered at 851-853
RenameMoved(r) ==
    LET req == requests[r]
    IN  /\ req.op = "rename" /\ req.pc = "rename"
        /\ \E moved \in {FsRename(fs, req.full, req.target)} :
            Ran(r, moved.fs, lastOperation, << >>,
                IF moved.err # ""
                THEN Answered(req, ErrorResponse("rename", "Failed to rename", moved.err,
                                                 req.full, req.target))
                ELSE [req EXCEPT !.pc = "record"])

\* rename after the move, server.js:838-850
RenameDone(r) ==
    LET req == requests[r]
    IN  /\ req.op = "rename" /\ req.pc = "record"
        /\ Ran(r, fs, RenameRecord(req.full, req.target), <<PathDirname(req.path)>>,
               Answered(req, Response("rename", 200, "", req.full, req.target, << >>)))

\* the handler of undo request r, server.js:856-894
UndoRan(r) ==
    LET req == requests[r]
    IN  /\ req.op = "undo" /\ req.pc = "new"
        /\ \E out \in {UndoHandler(TRUE, FALSE)} :
            Ran(r, out.fs, out.lastOperation, out.emitted, Answered(req, out.resp))

RaceNext ==
    \/ Tick
    \/ \E r \in DOMAIN requests : UploadStored(r)
    \/ \E r \in DOMAIN requests : UploadSaved(r)
    \/ \E r \in DOMAIN requests : CreateFolderAccess(r)
    \/ \E r \in DOMAIN requests : CreateFolderMkdir(r)
    \/ \E r \in DOMAIN requests : CreateFolderDone(r)
    \/ \E r \in DOMAIN requests : DeleteStat(r)
    \/ \E r \in DOMAIN requests : DeleteRecorded(r)
    \/ \E r \in DOMAIN requests : DeleteRemoved(r)
    \/ \E r \in DOMAIN requests : DeleteDone(r)
    \/ \E r \in DOMAIN requests : RenameAccess(r)
    \/ \E r \in DOMAIN requests : RenameAccessNew(r)
    \/ \E r \in DOMAIN requests : RenameMoved(r)
    \/ \E r \in DOMAIN requests : RenameDone(r)
    \/ \E r \in DOMAIN requests : UndoRan(r)

SpecRace == RaceInit /\ [][RaceNext]_vars

\* the requests to handler op, and those of them that were answered
RequestsTo(op) == {r \in DOMAIN requests : requests[r].op = op}
AnsweredTo(op) == {r \in RequestsTo(op) : requests[r].pc = "done"}

\* nothing has been done yet for any request but those of set R
OnlyRan(R) == \A r \in (DOMAIN requests) \ R : requests[r].pc = "new"

\* C22: when two upload requests carrying a file of the same name into the
\* same directory have both been answered, and no other request has run,
\* both were answered 200 and the directory holds the content of each
\* under the name its answer gives, two different names.
C22_ConcurrentUploadsBothStored ==
    \A r1, r2 \in AnsweredTo("upload") :
        (r1 # r2 /\ OnlyRan({r1, r2})) =>
            LET a == requests[r1].resp
                b == requests[r2].resp
            IN  /\ a.status = 200 /\ b.status = 200
                /\ a.uploaded # b.uploaded
                /\ \A r \in {r1, r2} :
                      LET stored == PathJoin(BASE_DIR, requests[r].resp.uploaded[1])
                      IN  FsIsFile(fs, stored) /\ fs[stored].data = 100 + r

\* C23: when two create_folder requests for the same name in the same
\* parent have both been answered, and no other request has run, at most
\* one of them was answered 200.
C23_ConcurrentCreateFolderOneSucceeds ==
    \A r1, r2 \in AnsweredTo("create_folder") :
        (r1 # r2 /\ OnlyRan({r1, r2})) =>
            ~(requests[r1].resp.status = 200 /\ requests[r2].resp.status = 200)

\* the step is the handler of undo request r running
UndoStep(r) ==
    /\ requests[r].op = "undo"
    /\ requests[r].pc = "new"
    /\ requests'[r].pc = "done"

\* the requests whose handler has begun and has not answered
InFlight == {r \in DOMAIN requests : requests[r].pc \notin {"new", "done"}}

\* C24: whatever requests are in flight, an undo request is handled in one
\* step: when it is answered 200 the slot held a record before the step,
\* the filesystem after the step is the one the undo of exactly that record
\* leaves, and the slot is empty; no undo is ever between reading and
\* clearing the slot, and no other step empties the slot.
C24_UndoClearsTheRecordItActedOn ==
    [][/\ \A r \in DOMAIN requests :
            (UndoStep(r) /\ requests'[r].resp.status = 200) =>
                /\ lastOperation # NoOperation
                /\ fs' = UndoEffect(fs, lastOperation, FALSE).fs
                /\ lastOperation' = NoOperation
       /\ \A r \in RequestsTo("undo") : r \notin InFlight'
       /\ (lastOperation # NoOperation /\ lastOperation' = NoOperation) =>
            \E r \in DOMAIN requests :
                UndoStep(r) /\ requests'[r].resp.status = 200]_vars

\* folder b was made and recorded; a delete request had stat'ed it and not
\* yet written its record when undo removed the folder and cleared the slot
C24_Witness ==
    \E c \in AnsweredTo("create_folder"), u \in AnsweredTo("undo"),
       d \in RequestsTo("delete") :
        /\ requests[c].resp.status = 200
        /\ requests[u].resp.status = 200
        /\ requests[d].pc = "record"
        /\ lastOperation = NoOperation
        /\ ~FsExists(fs, PathJoin(BASE_DIR, Str_b))

-----------------------------------------------------------------------------
(* Properties of the events the handlers emit                              *)

\* the filesystem after the step holds what the request answered in the
\* step was to do
EffectDone ==
    IF resp'.op = "upload"
    THEN \A i \in 1..Len(resp'.uploaded) :
            FsIsFile(fs', PathJoin(resp'.dst, resp'.uploaded[i]))
    ELSE IF resp'.op = "create_folder" THEN FsIsDir(fs', resp'.dst)
    ELSE IF resp'.op = "delete" THEN ~FsExists(fs', resp'.src)
    ELSE IF resp'.op = "rename"
    THEN FsExists(fs', resp'.dst) /\ ~FsExists(fs', resp'.src)
    ELSE fs' = UndoEffect(fs, lastOperation, FALSE).fs

\* C25: a step that answers an upload, create_folder, delete, rename or
\* undo request with success emits one file_updated event, and the
\* filesystem in which the event is emitted holds the effect of the
\* request; a step that answers such a request with an error emits none.
C25_SuccessEmitsAfterEffect ==
    [][resp'.op \in Mutations =>
        IF resp'.status = 200
        THEN Len(emitted') = 1 /\ EffectDone
        ELSE emitted' = << >>]_vars

\* a rename failed and emitted nothing (the step before), then a delete of
\* f.t succeeded: the file is gone and one event was emitted
C25_Witness ==
    /\ prevResp.op = "rename"
    /\ prevResp.status = 500
    /\ Succeeded(resp, "delete")
    /\ resp.src = PathJoin(BASE_DIR, Str_ft)
    /\ ~FsExists(fs, resp.src)
    /\ Len(emitted) = 1

\* the directory of the entry a watcher callback names, relative to the
\* root: the segments before the last one
DirectoryOf(filename) ==
    LET segs == Segments(filename)
    IN  IF Len(segs) <= 1 THEN EmptyStr ELSE JoinSegs(SubSeq(segs, 1, Len(segs) - 1))

\* the step sends an event of the watcher
WatchBroadcast ==
    /\ Len(broadcasts') = Len(broadcasts) + 1
    /\ broadcasts'[Len(broadcasts')].origin = "watch"

\* C27: at most one timeout of the watcher is pending, the one its most
\* recent callback set; when it runs, the event sent carries the directory
\* of the entry that callback named (the empty path for an entry of the
\* root and for a callback without filename), and no timeout of an earlier
\* callback is left to run.
C27_BroadcastCarriesMostRecentDirectory ==
    [][/\ Cardinality(timers') <= 1
       /\ \A t \in timers' : t.id = fsWatchDebounce'
       /\ WatchBroadcast =>
            /\ timers' = {}
            /\ \E t \in timers :
                /\ t.id = fsWatchDebounce
                /\ broadcasts'[Len(broadcasts')].path = DirectoryOf(t.filename)]_vars

\* two callbacks of the watcher came within one window, and one event was
\* sent, DebounceMs after the second: it carries folder a
C27_Witness ==
    /\ Len(signals) = 2
    /\ RaisedBy("watch") = {1, 2}
    /\ signals[1].at < signals[2].at
    /\ InOneWindow(1, 2)
    /\ Len(broadcasts) = 1
    /\ broadcasts[1].path = Str_a
    /\ broadcasts[1].at = signals[2].at + DebounceMs
    /\ timers = {}

-----------------------------------------------------------------------------
(* More properties of the polling detector                                 *)

\* C26: when the last sweep completed and the tree has not changed since,
\* the baseline holds the modification time of every directory, and an
\* event has been sent for every directory another process modified: none
\* is left that has another modification time than before the change and
\* was not reported.
C26_CompletedSweepHasReportedEveryChange ==
    (pollInfo.sweeps > 0 /\ ~pollInfo.aborted /\ ~pollInfo.changed) =>
        /\ lastMtimes = mtimeMs
        /\ unreported = << >>

-----------------------------------------------------------------------------
(* The root directory in events and in requests; the frame of undo         *)

\* C28: every event a request handler emits for the root directory, that
\* is with a path that resolves to the root, carries the empty string.
C28_RootEventsCarryEmptyPath ==
    [][\A i \in 1..Len(emitted') :
            safeJoin(BASE_DIR, emitted'[i]) = BASE_DIR => emitted'[i] = EmptyStr]_vars

\* the entries the undo of a record is to remove from filesystem f
RecordedEntries(f, slot) ==
    IF slot.type = "upload"
    THEN {Key(slot.files[i]) : i \in 1..Len(slot.files)} \cap DOMAIN f
    ELSE {q \in DOMAIN f : InsideDir(q, Key(slot.path))}

\* the paths an upload record may list: stored files, and names nothing
\* is stored under
RecordedPaths ==
    {PathJoin(BASE_DIR, Str_ft), PathJoin(BASE_DIR, SuffixedName(Str_ft, 1)),
     PathJoin(BASE_DIR, Str_b)}

\* filesystem g is f without the entries of set gone
IsWithout(g, f, gone) ==
    /\ DOMAIN g = (DOMAIN f) \ gone
    /\ \A q \in DOMAIN g : g[q] = f[q]

\* C29: in every state, the undo of an upload record that lists paths of
\* files and paths under which nothing is stored ends without error and
\* removes the listed files that are present and nothing else; and a step
\* that handles an undo request while the slot holds an upload or a
\* create_folder record, with no fault of the environment, answers 200 and
\* removes the present files of the record, or the recorded folder with all
\* below it, and leaves every other entry as it was.
C29_UndoRemovesExactlyWhatWasRecorded ==
    /\ [](\A files \in UNION {[1..n -> RecordedPaths] : n \in 1..2} :
            LET slot == [type |-> "upload", files |-> files]
                out == UndoEffect(fs, slot, FALSE)
            IN  (\A i \in 1..Len(files) : ~FsIsDir(fs, files[i])) =>
                    /\ out.err = ""
                    /\ IsWithout(out.fs, fs, RecordedEntries(fs, slot)))
    /\ [][(Served("undo") /\ lastOperation.type \in {"upload", "create_folder"}) =>
            /\ resp'.status = 200
            /\ IsWithout(fs', fs, RecordedEntries(fs, lastOperation))]_vars

\* folder b was made, another process removed it, and the undo found
\* nothing to remove: the tree is the one before the create_folder
C29_Witness ==
    /\ nOps = 3
    /\ prevResp.op = "out_of_band"
    /\ prevResp.src = PathJoin(BASE_DIR, Str_b)
    /\ Succeeded(resp, "undo")
    /\ lastOperation = NoOperation
    /\ fs = InitialFs

\* C30: the root directory exists in every state.
C30_RootAlwaysExists == FsIsDir(fs, BASE_DIR)

-----------------------------------------------------------------------------
(* What undo and upload do to entries and records they did not make        *)

\* C31: a step that handles an undo request while the slot holds a rename
\* record and an entry exists at the old path of the record leaves that
\* entry as it was.
C31_UndoOfRenameKeepsEntryAtOldPath ==
    [][(Served("undo") /\ lastOperation.type = "rename"
            /\ FsExists(fs, lastOperation.old_path)) =>
        /\ FsExists(fs', lastOperation.old_path)
        /\ fs'[Key(lastOperation.old_path)] = fs[Key(lastOperation.old_path)]]_vars

\* C32: a step that handles an upload request and stores no file leaves
\* the undo slot as it was.
C32_UploadOfNoFileKeepsTheSlot ==
    [][(resp'.op = "upload" /\ resp'.uploaded = << >>) =>
            lastOperation' = lastOperation]_vars

-----------------------------------------------------------------------------
(* The debounce timeout of the watcher over time.  The event loop runs the *)
(* callback of a timeout that is due, and time goes on: both steps are     *)
(* taken when they stay possible.  The clock of the model ends at          *)
(* MaxClock, so the callbacks of the watcher it follows are those whose    *)
(* timeout is due by then.                                                 *)

\* a callback of fs.watch whose timeout is due within the time modelled
WatchEventInTime ==
    /\ clock + DebounceMs <= MaxClock
    /\ WatchEvent

NotifyLiveNext ==
    \/ WatchEventInTime
    \/ TimeoutRuns
    \/ HandlerEmits
    \/ PollEmits
    \/ TimePasses

SpecNotifyLive ==
    /\ NotifyInit
    /\ [][NotifyLiveNext]_vars
    /\ WF_vars(TimeoutRuns)
    /\ WF_vars(TimePasses)

\* signal n is a callback of the watcher
IsWatchSignal(n) == n <= Len(signals) /\ signals[n].origin = "watch"

\* an event of the watcher was sent DebounceMs or more after signal n
AnsweredByWatcher(n) ==
    /\ n <= Len(signals)
    /\ \E k \in SentFrom("watch") : broadcasts[k].at >= signals[n].at + DebounceMs

\* C33: every callback of the watcher is eventually followed by an event
\* of the watcher, sent once no callback has come for DebounceMs; at most
\* one timeout is pending in every state; and a step that takes a pending
\* timeout away either runs its callback, which sends the event, or is a
\* callback of the watcher that sets a newer timeout in its place.
C33_EveryCallbackIsAnswered ==
    /\ \A n \in 1..MaxSignals : IsWatchSignal(n) ~> AnsweredByWatcher(n)
    /\ [](Cardinality(timers) <= 1)
    /\ [][\A t \in timers :
            t \notin timers' =>
                \/ WatchBroadcast /\ timers' = {}
                \/ \E u \in timers' : u.id > t.id /\ u.id = fsWatchDebounce']_vars

\* three callbacks of the watcher came 100 ms apart, each replacing the
\* timeout of the one before, and the timeout of the third ran
C33_Witness ==
    /\ Len(signals) = 3
    /\ RaisedBy("watch") = {1, 2, 3}
    /\ signals[2].at = signals[1].at + 100
    /\ signals[3].at = signals[2].at + 100
    /\ Len(broadcasts) = 1
    /\ broadcasts[1].origin = "watch"
    /\ broadcasts[1].at = signals[3].at + DebounceMs
    /\ timers = {}

=============================================================================
